---------------------------- MODULE Spec2Model ----------------------------
(***************************************************************************)
(* The final interpreter of the lecture series (08_Functions/functions.py) *)
(* as a state machine: the semantic domains, the expression evaluator, the  *)
(* command executor unfolded one command at a time, and the REPL that       *)
(* drives it.  The store primitives of Lecture 6 (06_State/state.py) are    *)
(* modelled next to those of the final interpreter.                        *)
(***************************************************************************)
EXTENDS Integers, Sequences, FiniteSets, TLC

(***************************************************************************)
(* Semantic domains                                                        *)
(***************************************************************************)

\* EVal = int | bool: an expressible value carries its runtime type.
IntV(n) == [k |-> "int", v |-> n]

BoolV(b) == [k |-> "bool", b |-> b]

\* class Loc
Loc(a) == [k |-> "loc", address |-> a]

\* class Operator: type = (argument types, return type), fn names the function
Operator(argtypes, ret, fn) == [k |-> "op", type |-> <<argtypes, ret>>, fn |-> fn]

\* class Closure
Closure(function, env) == [k |-> "closure", function |-> function, env |-> env]

\* type(actual): the exact runtime type of an expressible value
TypeOf(val) == val.k

\* Outcome of a call: a returned value or a raised ValueError (its message,
\* as the list of its parts).
Return(val) == [ok |-> TRUE, val |-> val, err |-> <<>>]

Raise(msg) == [ok |-> FALSE, val |-> IntV(0), err |-> msg]

(***************************************************************************)
(* Store                                                                   *)
(***************************************************************************)

\* empty_store: the function that raises on every location
empty_store == [l \in {} |-> IntV(0)]

empty_state == [store |-> empty_store, next_loc |-> 0]

\* state.store(l): the chain of new_store closures ends in empty_store's raise
store_call(store, l) ==
    IF l \in DOMAIN store THEN Return(store[l])
    ELSE Raise(<<"Location not allocated">>)

\* new_store(l) = value if l == loc.address else prev_store(l)
new_store(prev_store, a, value) ==
    [l \in (DOMAIN prev_store) \cup {a} |-> IF l = a THEN value ELSE prev_store[l]]

\* Mutant of allocate: the cursor is not advanced
allocate_same_loc(state, value) ==
    LET loc == Loc(state.next_loc)
    IN  [loc   |-> loc,
         state |-> [store    |-> new_store(state.store, loc.address, value),
                    next_loc |-> loc.address]]

allocate(state, value) ==
    LET loc == Loc(state.next_loc)
    IN  [loc   |-> loc,
         state |-> [store    |-> new_store(state.store, loc.address, value),
                    next_loc |-> loc.address + 1]]

update(state, addr, value) ==
    Return([store |-> new_store(state.store, addr, value), next_loc |-> state.next_loc])

access(state, addr) == store_call(state.store, addr)

\* Lecture 6 update: reads the location first, which raises if it is not there
update_L6(state, loc, value) ==
    IF ~store_call(state.store, loc).ok THEN store_call(state.store, loc)
    ELSE Return([store |-> new_store(state.store, loc, value), next_loc |-> state.next_loc])

(***************************************************************************)
(* Environment: the chain of new_env closures, oldest binding first        *)
(***************************************************************************)

empty_environment == <<>>

bind(env, name, value) == Append(env, <<name, value>>)

\* Mutant of lookup: the oldest binding of the name is the one found
lookup_oldest(env, name) ==
    LET I == {i \in DOMAIN env : env[i][1] = name}
    IN  IF I = {} THEN Raise(<<"Undefined identifier">>)
        ELSE Return(env[CHOOSE i \in I : \A j \in I : i <= j][2])

lookup(env, name) ==
    LET I == {i \in DOMAIN env : env[i][1] = name}
    IN  IF I = {} THEN Raise(<<"Undefined identifier">>)
        ELSE Return(env[CHOOSE i \in I : \A j \in I : j <= i][2])

(***************************************************************************)
(* Operator functions                                                      *)
(***************************************************************************)

\* The integer an operand stands for in arithmetic and comparisons: a Python
\* bool is an int, True is 1 and False is 0
int_of(val) == IF val.k = "bool" THEN (IF val.b THEN 1 ELSE 0) ELSE val.v

\* Mutant of FloorDiv: the quotient is rounded toward zero
FloorDiv_truncating(a, b) ==
    LET abs(n) == IF n < 0 THEN 0 - n ELSE n
        q == abs(a) \div abs(b)
    IN  IF (a < 0) = (b < 0) THEN q ELSE 0 - q

\* Python's // : floor of the exact quotient, for either sign of the divisor
FloorDiv(a, b) == IF b > 0 THEN a \div b ELSE (0 - a) \div (0 - b)

add(args) == Return(IntV(int_of(args[1]) + int_of(args[2])))

subtract(args) == Return(IntV(int_of(args[1]) - int_of(args[2])))

multiply(args) == Return(IntV(int_of(args[1]) * int_of(args[2])))

divide(args) ==
    IF int_of(args[2]) = 0 THEN Raise(<<"Division by zero">>)
    ELSE Return(IntV(FloorDiv(int_of(args[1]), int_of(args[2]))))

modulo(args) ==
    IF int_of(args[2]) = 0 THEN Raise(<<"Division by zero">>)
    ELSE Return(IntV(int_of(args[1]) - int_of(args[2]) * FloorDiv(int_of(args[1]), int_of(args[2]))))

eq(args) == Return(BoolV(int_of(args[1]) = int_of(args[2])))

ne(args) == Return(BoolV(int_of(args[1]) # int_of(args[2])))

lt(args) == Return(BoolV(int_of(args[1]) < int_of(args[2])))

\* Mutant of gt: a >= b in place of a > b
gt_or_equal(args) == Return(BoolV(int_of(args[1]) >= int_of(args[2])))

gt(args) == Return(BoolV(int_of(args[1]) > int_of(args[2])))

le(args) == Return(BoolV(int_of(args[1]) <= int_of(args[2])))

ge(args) == Return(BoolV(int_of(args[1]) >= int_of(args[2])))

land(args) ==
    IF ~(TypeOf(args[1]) = "bool" /\ TypeOf(args[2]) = "bool")
    THEN Raise(<<"and expects booleans">>)
    ELSE Return(BoolV(args[1].b /\ args[2].b))

lor(args) ==
    IF ~(TypeOf(args[1]) = "bool" /\ TypeOf(args[2]) = "bool")
    THEN Raise(<<"or expects booleans">>)
    ELSE Return(BoolV(args[1].b \/ args[2].b))

lnot(args) ==
    IF TypeOf(args[1]) # "bool" THEN Raise(<<"not expects a boolean">>)
    ELSE Return(BoolV(~args[1].b))

\* op_val.fn(arg_vals)
call_fn(fn, args) ==
    CASE fn = "add"      -> add(args)
      [] fn = "subtract" -> subtract(args)
      [] fn = "multiply" -> multiply(args)
      [] fn = "divide"   -> divide(args)
      [] fn = "modulo"   -> modulo(args)
      [] fn = "eq"       -> eq(args)
      [] fn = "ne"       -> ne(args)
      [] fn = "lt"       -> lt(args)
      [] fn = "gt"       -> gt(args)
      [] fn = "le"       -> le(args)
      [] fn = "ge"       -> ge(args)
      [] fn = "land"     -> land(args)
      [] fn = "lor"      -> lor(args)
      [] fn = "lnot"     -> lnot(args)

\* The operator bindings of create_initial_env_state, in binding order
initial_bindings ==
    << <<"+",   Operator(<<"int", "int">>, "int", "add")>>,
       <<"-",   Operator(<<"int", "int">>, "int", "subtract")>>,
       <<"*",   Operator(<<"int", "int">>, "int", "multiply")>>,
       <<"/",   Operator(<<"int", "int">>, "int", "divide")>>,
       <<"%",   Operator(<<"int", "int">>, "int", "modulo")>>,
       <<"==",  Operator(<<"int", "int">>, "bool", "eq")>>,
       <<"!=",  Operator(<<"int", "int">>, "bool", "ne")>>,
       <<"<",   Operator(<<"int", "int">>, "bool", "lt")>>,
       <<">",   Operator(<<"int", "int">>, "bool", "gt")>>,
       <<"<=",  Operator(<<"int", "int">>, "bool", "le")>>,
       <<">=",  Operator(<<"int", "int">>, "bool", "ge")>>,
       <<"and", Operator(<<"bool", "bool">>, "bool", "land")>>,
       <<"or",  Operator(<<"bool", "bool">>, "bool", "lor")>>,
       <<"not", Operator(<<"bool">>, "bool", "lnot")>> >>

create_initial_env_state ==
    [env |-> empty_environment \o initial_bindings, state |-> empty_state]

(***************************************************************************)
(* Abstract syntax                                                         *)
(***************************************************************************)

Number(value) == [e |-> "Number", value |-> value]

Bool(value) == [e |-> "Bool", bvalue |-> value]

Var(name) == [e |-> "Var", name |-> name]

Apply(op, args) == [e |-> "Apply", op |-> op, args |-> args]

Let(name, expr, body) == [e |-> "Let", name |-> name, expr |-> expr, body |-> body]

FunctionApp(name, args) == [e |-> "FunctionApp", name |-> name, args |-> args]

\* Commands.  A CommandSequence (first, rest) is the non-empty sequence of its
\* commands.
Assign(name, expr) == [c |-> "Assign", name |-> name, expr |-> expr]

PrintCmd(expr) == [c |-> "Print", expr |-> expr]

VarDecl(name, expr) == [c |-> "VarDecl", name |-> name, expr |-> expr]

IfElse(cond, then_branch, else_branch) ==
    [c |-> "IfElse", cond |-> cond, then_branch |-> then_branch, else_branch |-> else_branch]

While(cond, body) == [c |-> "While", cond |-> cond, body |-> body]

FunctionDecl(name, params, body) ==
    [c |-> "FunctionDecl", name |-> name, params |-> params, body |-> body]

(***************************************************************************)
(* evaluate_expr                                                           *)
(*                                                                         *)
(* The outcome carries, next to the value or the error, the state object   *)
(* as the call leaves it: the caller goes on with that object.             *)
(***************************************************************************)

EReturn(val, state) == [ok |-> TRUE, val |-> val, err |-> <<>>, state |-> state]

ERaise(msg, state) == [ok |-> FALSE, val |-> IntV(0), err |-> msg, state |-> state]

\* Mutant of first_mismatch: isinstance(actual, expected) in place of
\* type(actual) is expected; a bool is an instance of int.
first_mismatch_isinstance(expected_types, arg_vals) ==
    LET n == IF Len(expected_types) < Len(arg_vals) THEN Len(expected_types)
             ELSE Len(arg_vals)
        bad == {i \in 1..n : TypeOf(arg_vals[i]) # expected_types[i]
                             /\ ~(TypeOf(arg_vals[i]) = "bool" /\ expected_types[i] = "int")}
    IN  IF bad = {} THEN 0 ELSE CHOOSE i \in bad : \A j \in bad : i <= j

\* for i, (expected, actual) in enumerate(zip(...)): the first position whose
\* argument has another type than the declared one, 0 if there is none
first_mismatch(expected_types, arg_vals) ==
    LET n == IF Len(expected_types) < Len(arg_vals) THEN Len(expected_types)
             ELSE Len(arg_vals)
        bad == {i \in 1..n : TypeOf(arg_vals[i]) # expected_types[i]}
    IN  IF bad = {} THEN 0 ELSE CHOOSE i \in bad : \A j \in bad : i <= j

\* The Operator branch of the Apply case, after the arguments were evaluated
apply_operator(op_val, arg_vals) ==
    LET expected_types == op_val.type[1]
    IN  IF Len(expected_types) # Len(arg_vals)
        THEN Raise(<<"Operator expects arguments">>)
        ELSE IF first_mismatch(expected_types, arg_vals) # 0
        THEN Raise(<<"Operator argument expects type">>)
        ELSE call_fn(op_val.fn, arg_vals)

\* Mutant of let_binding: a let on the name of a variable assigns to the
\* variable
let_binding_assign(env, state, name, value) ==
    IF lookup(env, name).ok /\ lookup(env, name).val.k = "loc"
    THEN [env |-> env, state |-> update(state, lookup(env, name).val.address, value).val]
    ELSE [env |-> bind(env, name, value), state |-> state]

\* Mutant of let_binding: the let variable gets a store cell, like a var
let_binding_alloc(env, state, name, value) ==
    [env |-> bind(env, name, allocate(state, value).loc),
     state |-> allocate(state, value).state]

\* Let: extended_env = bind(env, name, value); the state is passed on as it is
let_binding(env, state, name, value) ==
    [env |-> bind(env, name, value), state |-> state]

\* Mutant of call_env: dynamic scoping, the parameters are bound on top of the
\* caller's environment
call_env_dynamic(closure, env, arg_vals) ==
    LET params == closure.function.params
    IN  env \o [i \in 1..Len(params) |-> <<params[i], arg_vals[i]>>]

\* Mutant of call_env: the captured bindings are put on top of the parameters
call_env_params_under(closure, env, arg_vals) ==
    LET params == closure.function.params
    IN  [i \in 1..Len(params) |-> <<params[i], arg_vals[i]>>] \o closure.env

\* FunctionApp: the parameters are bound on top of the closure's environment
call_env(closure, env, arg_vals) ==
    LET params == closure.function.params
        F[i \in 0..Len(params)] ==
            IF i = 0 THEN closure.env ELSE bind(F[i - 1], params[i], arg_vals[i])
    IN  F[Len(params)]

\* Mutant of apply_outcome: the operator is looked up, and must be an
\* Operator, before the arguments are evaluated
apply_outcome_lookup_first(as, op_val) ==
    IF ~op_val.ok THEN ERaise(op_val.err, as.state)
    ELSE IF op_val.val.k # "op" THEN ERaise(<<"is not an operator">>, as.state)
    ELSE IF ~as.ok THEN as
    ELSE LET r == apply_operator(op_val.val, as.val)
         IN  IF r.ok THEN EReturn(r.val, as.state) ELSE ERaise(r.err, as.state)

\* The Apply case: as is the outcome of evaluating the arguments, which comes
\* first, op_val that of lookup(env, op), which comes next
apply_outcome(as, op_val) ==
    IF ~as.ok THEN as
    ELSE IF ~op_val.ok THEN ERaise(op_val.err, as.state)
    ELSE IF op_val.val.k = "op"
    THEN LET r == apply_operator(op_val.val, as.val)
         IN  IF r.ok THEN EReturn(r.val, as.state) ELSE ERaise(r.err, as.state)
    ELSE ERaise(<<"is not an operator">>, as.state)

\* Mutant of arity_mismatch: arguments beyond the parameters are ignored
arity_mismatch_too_few(params, arg_vals) == Len(arg_vals) < Len(params)

\* FunctionApp: if len(arg_vals) != len(params)
arity_mismatch(params, arg_vals) == Len(arg_vals) # Len(params)

RECURSIVE evaluate_expr(_, _, _)
RECURSIVE evaluate_args(_, _, _)

\* [evaluate_expr(a, env, state) for a in args]: left to right, the first
\* failure ends it; val is the list of the values
evaluate_args(args, env, state) ==
    IF args = <<>> THEN EReturn(<<>>, state)
    ELSE LET r == evaluate_expr(Head(args), env, state)
         IN  IF ~r.ok THEN r
             ELSE LET rs == evaluate_args(Tail(args), env, r.state)
                  IN  IF ~rs.ok THEN rs
                      ELSE EReturn(<<r.val>> \o rs.val, rs.state)

evaluate_expr(expr, env, state) ==
    CASE expr.e = "Number" -> EReturn(IntV(expr.value), state)
      [] expr.e = "Bool" -> EReturn(BoolV(expr.bvalue), state)
      [] expr.e = "Apply" ->
            apply_outcome(evaluate_args(expr.args, env, state), lookup(env, expr.op))
      [] expr.e = "Var" ->
            LET dval == lookup(env, expr.name)
            IN  IF ~dval.ok THEN ERaise(<<"Variable error">> \o dval.err, state)
                ELSE IF dval.val.k \in {"int", "bool"} THEN EReturn(dval.val, state)
                ELSE IF dval.val.k = "loc"
                THEN LET r == access(state, dval.val.address)
                     IN  IF r.ok THEN EReturn(r.val, state)
                         ELSE ERaise(<<"Variable error">> \o r.err, state)
                ELSE ERaise(<<"Variable error", "does not refer to a value">>, state)
      [] expr.e = "Let" ->
            LET value == evaluate_expr(expr.expr, env, state)
            IN  IF ~value.ok THEN value
                ELSE LET ext == let_binding(env, value.state, expr.name, value.val)
                     IN  evaluate_expr(expr.body, ext.env, ext.state)
      [] expr.e = "FunctionApp" ->
            LET dval == lookup(env, expr.name)
            IN  IF ~dval.ok THEN ERaise(dval.err, state)
                ELSE IF dval.val.k # "closure" THEN ERaise(<<"is not a function">>, state)
                ELSE LET closure == dval.val
                         as == evaluate_args(expr.args, env, state)
                     IN  IF ~as.ok THEN as
                         ELSE IF arity_mismatch(closure.function.params, as.val)
                         THEN ERaise(<<"Function expects arguments">>, as.state)
                         ELSE evaluate_expr(closure.function.body,
                                            call_env(closure, env, as.val), as.state)
      [] OTHER -> ERaise(<<"Unexpected expression type">>, state)

(***************************************************************************)
(* execute_command, the cases that run no nested sequence                  *)
(***************************************************************************)

XReturn(env, state, printed) ==
    [ok |-> TRUE, env |-> env, state |-> state, err |-> <<>>, printed |-> printed]

XRaise(msg, env, state) ==
    [ok |-> FALSE, env |-> env, state |-> state, err |-> msg, printed |-> <<>>]

\* Mutant of execute_VarDecl: a name that denotes a cell keeps it, the value is
\* written there
execute_VarDecl_reuse(cmd, env, state) ==
    LET value == evaluate_expr(cmd.expr, env, state)
        dval == lookup(env, cmd.name)
    IN  IF ~value.ok THEN XRaise(value.err, env, value.state)
        ELSE IF dval.ok /\ dval.val.k = "loc"
        THEN XReturn(bind(env, cmd.name, dval.val),
                     [store |-> new_store(value.state.store, dval.val.address, value.val),
                      next_loc |-> value.state.next_loc], <<>>)
        ELSE LET a == allocate(value.state, value.val)
             IN  XReturn(bind(env, cmd.name, a.loc), a.state, <<>>)

execute_VarDecl(cmd, env, state) ==
    LET value == evaluate_expr(cmd.expr, env, state)
    IN  IF ~value.ok THEN XRaise(value.err, env, value.state)
        ELSE LET a == allocate(value.state, value.val)
             IN  XReturn(bind(env, cmd.name, a.loc), a.state, <<>>)

\* Mutant of execute_Assign: the value gets a new cell and the name is bound
\* to it, as in a declaration
execute_Assign_rebind(cmd, env, state) ==
    LET dval == lookup(env, cmd.name)
        undeclared == <<"Assignment to undeclared variable">>
    IN  IF ~dval.ok THEN XRaise(undeclared, env, state)
        ELSE IF dval.val.k = "loc"
        THEN LET value == evaluate_expr(cmd.expr, env, state)
             IN  IF ~value.ok THEN XRaise(undeclared, env, value.state)
                 ELSE LET a == allocate(value.state, value.val)
                      IN  XReturn(bind(env, cmd.name, a.loc), a.state, <<>>)
        ELSE XRaise(undeclared, env, state)

\* Every ValueError raised inside the try block, the one of the expression and
\* the "is not a variable" one included, is replaced by the same message.
execute_Assign(cmd, env, state) ==
    LET dval == lookup(env, cmd.name)
        undeclared == <<"Assignment to undeclared variable">>
    IN  IF ~dval.ok THEN XRaise(undeclared, env, state)
        ELSE IF dval.val.k = "loc"
        THEN LET value == evaluate_expr(cmd.expr, env, state)
             IN  IF ~value.ok THEN XRaise(undeclared, env, value.state)
                 ELSE LET state1 == update(value.state, dval.val.address, value.val)
                      IN  IF state1.ok THEN XReturn(env, state1.val, <<>>)
                          ELSE XRaise(undeclared, env, value.state)
        ELSE XRaise(undeclared, env, state)

execute_Print(cmd, env, state) ==
    LET value == evaluate_expr(cmd.expr, env, state)
    IN  IF ~value.ok THEN XRaise(value.err, env, value.state)
        ELSE XReturn(env, value.state, <<value.val>>)

\* Mutant of make_closure: the function captures the initial environment
make_closure_initial_env(cmd, env) == Closure(cmd, create_initial_env_state.env)

\* Mutant of make_closure: the captured environment already binds the
\* function's own name
make_closure_self(cmd, env) == Closure(cmd, bind(env, cmd.name, Closure(cmd, env)))

\* closure = Closure(function=cmd, env=env)
make_closure(cmd, env) == Closure(cmd, env)

\* Mutant of execute_FunctionDecl: the closure captures its variables by
\* value, an address is replaced by what the cell holds at the declaration
execute_FunctionDecl_by_value(cmd, env, state) ==
    LET captured == [i \in DOMAIN env |->
                        IF env[i][2].k = "loc" /\ access(state, env[i][2].address).ok
                        THEN <<env[i][1], access(state, env[i][2].address).val>>
                        ELSE env[i]]
    IN  XReturn(bind(env, cmd.name, Closure(cmd, captured)), state, <<>>)

execute_FunctionDecl(cmd, env, state) ==
    XReturn(bind(env, cmd.name, make_closure(cmd, env)), state, <<>>)

\* Mutant of evaluate_cond: an integer condition counts as true unless it is 0
evaluate_cond_truthy(cmd, env, state) ==
    LET cond_val == evaluate_expr(cmd.cond, env, state)
    IN  IF ~cond_val.ok THEN cond_val
        ELSE EReturn(BoolV(int_of(cond_val.val) # 0), cond_val.state)

\* The condition of IfElse and While: it must evaluate to a bool
evaluate_cond(cmd, env, state) ==
    LET cond_val == evaluate_expr(cmd.cond, env, state)
    IN  IF ~cond_val.ok THEN cond_val
        ELSE IF TypeOf(cond_val.val) # "bool"
        THEN ERaise(IF cmd.c = "IfElse" THEN <<"If condition must be boolean">>
                    ELSE <<"While condition must be boolean">>, cond_val.state)
        ELSE cond_val

\* Mutant of restore_next_loc: the block's state is returned as it is
restore_next_loc_forgotten(state1, saved_next_loc) == state1

\* Mutant of restore_next_loc: the cursor is reset to the start of the store
restore_next_loc_zero(state1, saved_next_loc) ==
    [store |-> state1.store, next_loc |-> 0]

\* Mutant of restore_next_loc: the cells the block allocated are dropped
restore_next_loc_truncate(state1, saved_next_loc) ==
    [store |-> [l \in {a \in DOMAIN state1.store : a < saved_next_loc} |-> state1.store[l]],
     next_loc |-> saved_next_loc]

\* state2 = State(store=state1.store, next_loc=saved_next_loc)
restore_next_loc(state1, saved_next_loc) ==
    [store |-> state1.store, next_loc |-> saved_next_loc]

(***************************************************************************)
(* Bounds and inputs                                                       *)
(***************************************************************************)

\* Programs the REPL reads in one session
MaxLines == 3

\* Commands one program executes before the run is cut off
MaxSteps == 20

\* Store primitives called one after the other on one state
MaxCalls == 3

\* The largest address the store primitives are called with
MaxAddr == 2

\* The values they are called with
StoreValues == {IntV(0), IntV(7), BoolV(TRUE)}

\* Arithmetic is probed on the operands -MaxOperand .. MaxOperand
MaxOperand == 4

\* bind calls made one after the other on one environment
MaxBinds == 2

\* Activations on the stack, those of evaluate_expr included
MaxDepth == 12

\* Calls of the Lecture 6 eval_expr made one after the other
MaxEvals == 1

\* The names bind and lookup are called with, and a name that is never bound
EnvNames == {"x", "y", "+"}

Unbound == "nope"

\* The denotable values bind is called with
EnvValues == {IntV(7), BoolV(TRUE), Loc(0), Loc(1)}

X == Var("x")

Y == Var("y")

N(n) == Number(n)

Plus(l, r) == Apply("+", <<l, r>>)

DivZero == Apply("/", <<N(1), N(0)>>)

\* if x < 2 then (var y = x; x <- x + 1; print y)
\* else (var x = 0; if true then (var y = 1; y <- 2) else print x; var y = 7)
IfProgram ==
    IfElse(Apply("<", <<X, N(2)>>),
           <<VarDecl("y", X), Assign("x", Plus(X, N(1))), PrintCmd(Y)>>,
           <<VarDecl("x", N(0)),
             IfElse(Bool(TRUE), <<VarDecl("y", N(1)), Assign("y", N(2))>>, <<PrintCmd(X)>>),
             VarDecl("y", N(7))>>)

\* while x < 3 do (var y = x; x <- x + y)
WhileProgram ==
    While(Apply("<", <<X, N(3)>>), <<VarDecl("y", X), Assign("x", Plus(X, Y))>>)

\* function f(a) = x + a
DeclF == FunctionDecl("f", <<"a">>, Plus(X, Var("a")))

\* The programs typed at the prompt
Programs ==
    { <<VarDecl("x", N(1))>>,
      <<VarDecl("x", N(2))>>,
      <<VarDecl("y", Plus(X, N(1)))>>,
      <<Assign("x", Plus(X, N(1)))>>,
      <<Assign("f", N(1))>>,
      <<PrintCmd(X)>>,
      <<PrintCmd(FunctionApp("f", <<N(1)>>))>>,
      <<DeclF>>,
      <<FunctionDecl("x", <<"a">>, Var("a"))>>,
      <<IfProgram>>,
      <<WhileProgram>>,
      <<While(Bool(TRUE), <<Assign("x", Plus(X, N(1)))>>)>>,
      <<IfElse(N(1), <<PrintCmd(N(1))>>, <<PrintCmd(N(0))>>)>>,
      <<VarDecl("x", N(1)), DeclF>>,
      <<VarDecl("x", N(1)), PrintCmd(DivZero)>>,
      <<Assign("x", N(2)), VarDecl("y", N(1)), PrintCmd(Y), Assign("z", N(0))>>,
      <<DeclF, VarDecl("x", N(2)), PrintCmd(FunctionApp("f", <<N(1)>>))>>,
      <<IfElse(Bool(TRUE), <<VarDecl("y", N(1)), DeclF, PrintCmd(DivZero)>>, <<PrintCmd(X)>>)>> }

\* What the probed expressions are evaluated after: nothing; x declared; f, g,
\* h and k declared after x; x redeclared and y declared after the functions;
\* x rebound to a function; x a boolean
EvalSetups ==
    LET functions == <<VarDecl("x", N(1)), DeclF, FunctionDecl("g", <<"x">>, X),
                       FunctionDecl("h", <<"a">>, Y),
                       FunctionDecl("k", <<"a">>, Plus(Var("a"), Y))>>
    IN  { <<>>,
          <<VarDecl("x", N(1))>>,
          functions,
          functions \o <<VarDecl("x", N(2)), VarDecl("y", N(5))>>,
          functions \o <<FunctionDecl("x", <<"a">>, Var("a"))>>,
          <<VarDecl("x", Bool(TRUE)), VarDecl("y", N(5))>> }

OperatorNames == {initial_bindings[i][1] : i \in DOMAIN initial_bindings}

Atoms == {N(0), N(7), Bool(TRUE)}

\* Argument lists of every length up to one more than the largest arity
ArgLists ==
    {<<>>} \cup {<<a>> : a \in Atoms} \cup {<<a, b>> : a, b \in Atoms}
           \cup {<<a, b, c>> : a, b, c \in Atoms}

TenByZeroOver5 == Apply(">", <<Apply("/", <<N(10), N(0)>>), N(5)>>)

ProbeExprs ==
    {Apply(op, args) : op \in OperatorNames, args \in ArgLists}
    \cup {Apply(op, <<l, r>>) : op \in {"and", "or"},
                                l \in {Bool(TRUE), Bool(FALSE), Apply("<", <<X, N(2)>>)},
                                r \in {Bool(TRUE), Bool(FALSE), TenByZeroOver5}}
    \cup {FunctionApp(fn, args) : fn \in {"f", "g", "h", "k", "x", "+", "nope"},
                                  args \in {<<>>, <<N(7)>>, <<X>>, <<Y>>, <<N(7), N(0)>>,
                                            <<DivZero>>}}
    \cup {Let("x", N(7), X), Let("y", N(7), Plus(X, Y)), Let("x", DivZero, X),
          Let("f", N(7), FunctionApp("f", <<N(0)>>)),
          Let("a", N(7), FunctionApp("f", <<Var("a")>>)),
          Let("x", N(7), FunctionApp("f", <<X>>)),
          X, Y, Var("f"), Var("+"), N(7), Bool(FALSE), Apply("nope", <<N(7)>>),
          Apply("f", <<N(7)>>), Apply("nope", <<DivZero>>)}
    \cup {FunctionApp(fn, <<DivZero, N(0)>>) : fn \in {"f", "g", "h", "k", "x", "+", "nope"}}
    \cup {Let("f", N(7), FunctionApp("f", <<DivZero>>))}
    \cup {Apply(op, args) : op \in {"+", "not", "f", "x", "nope"},
                            args \in {<<DivZero, Var("zz")>>, <<Var("zz"), DivZero>>,
                                      <<N(7), DivZero, Var("zz")>>, <<DivZero>>,
                                      <<N(7), Var("zz")>>}}

\* The test programs: a setup, then print <expr>; and print <expr> inside a
\* block that declares y, then k, and redeclares x
EvalPrograms ==
    {setup \o <<PrintCmd(expr)>> : setup \in EvalSetups, expr \in ProbeExprs}
    \cup {<<VarDecl("x", N(1)), DeclF,
            IfElse(Apply("<", <<X, N(2)>>),
                   <<VarDecl("y", N(5)), FunctionDecl("k", <<"a">>, Plus(Var("a"), Y)),
                     VarDecl("x", N(2)), PrintCmd(expr)>>,
                   <<PrintCmd(expr)>>),
            PrintCmd(expr)>> : expr \in ProbeExprs}

A == Var("a")

B == Var("b")

\* var a = 48; var b = 18;
\* while b != 0 do (if a > b then a <- a - b else b <- b - a); print a
GCDProgram ==
    <<VarDecl("a", N(48)), VarDecl("b", N(18)),
      While(Apply("!=", <<B, N(0)>>),
            <<IfElse(Apply(">", <<A, B>>),
                     <<Assign("a", Apply("-", <<A, B>>))>>,
                     <<Assign("b", Apply("-", <<B, A>>))>>)>>),
      PrintCmd(A)>>

\* function f(a, b) = y + a + b
DeclFab == FunctionDecl("f", <<"a", "b">>, Plus(Plus(Y, A), B))

\* function g(a, b) = x + a + b
DeclGab == FunctionDecl("g", <<"a", "b">>, Plus(Plus(X, A), B))

\* run_tests: the multi-argument pure function in a block
BlockFunctionProgram ==
    <<VarDecl("x", N(10)),
      IfElse(Apply(">", <<X, N(0)>>),
             <<VarDecl("y", N(42)), DeclFab,
               PrintCmd(FunctionApp("f", <<N(3), N(0)>>)),
               PrintCmd(FunctionApp("f", <<N(1), N(2)>>))>>,
             <<DeclGab, PrintCmd(FunctionApp("g", <<N(5), N(5)>>))>>)>>

\* The same with y assigned to between the two calls
BlockFunctionAssignProgram ==
    <<VarDecl("x", N(10)),
      IfElse(Apply(">", <<X, N(0)>>),
             <<VarDecl("y", N(42)), DeclFab,
               PrintCmd(FunctionApp("f", <<N(3), N(0)>>)),
               Assign("y", N(0)),
               PrintCmd(FunctionApp("f", <<N(1), N(2)>>))>>,
             <<DeclGab, PrintCmd(FunctionApp("g", <<N(5), N(5)>>))>>)>>

\* var x = 10; var y = x + 5; print y
DeclareThenPrintProgram ==
    <<VarDecl("x", N(10)), VarDecl("y", Plus(X, N(5))), PrintCmd(Y)>>

\* var x = 10; print x; x <- 20; print x
PrintAssignPrintProgram ==
    <<VarDecl("x", N(10)), PrintCmd(X), Assign("x", N(20)), PrintCmd(X)>>

ArithmeticOperators == {"+", "-", "*", "/", "%"}

Operands == (0 - MaxOperand)..MaxOperand

\* print a <op> b
ArithmeticPrograms ==
    {<<PrintCmd(Apply(op, <<N(a), N(b)>>))>> : op \in ArithmeticOperators,
                                               a \in Operands, b \in Operands}

\* Declarations and redeclarations, at top level and in a block that follows
\* a block that has ended
VarDeclPrograms ==
    { <<VarDecl("x", N(1)), VarDecl("x", Plus(X, N(1))), PrintCmd(X)>>,
      <<VarDecl("x", N(1)), VarDecl("y", N(2)), VarDecl("x", Bool(TRUE)), PrintCmd(X),
        PrintCmd(Y)>>,
      <<VarDecl("x", X)>>,
      <<VarDecl("x", N(1)), VarDecl("x", DivZero), PrintCmd(X)>>,
      <<VarDecl("x", N(1)),
        IfElse(Bool(TRUE), <<VarDecl("y", N(2))>>, <<PrintCmd(X)>>),
        IfElse(Bool(FALSE), <<PrintCmd(X)>>,
               <<VarDecl("x", Plus(X, N(5))), VarDecl("x", Plus(X, X)), PrintCmd(X)>>),
        VarDecl("y", X), PrintCmd(Y)>>,
      <<DeclF, VarDecl("f", N(3)), PrintCmd(Var("f"))>> }

\* The conditions an if is given
Conds ==
    {Bool(TRUE), Bool(FALSE), N(0), N(1), Apply("<", <<N(1), N(2)>>),
     Apply("and", <<Bool(TRUE), Bool(FALSE)>>), DivZero, X, Var("z")}

\* var x = true; if <cond> then (print 1; var t = 1; print t) else (print 0);
\* print x
IfElsePrograms ==
    {<<VarDecl("x", Bool(TRUE)),
       IfElse(cond, <<PrintCmd(N(1)), VarDecl("t", N(1)), PrintCmd(Var("t"))>>,
              <<PrintCmd(N(0))>>),
       PrintCmd(X)>> : cond \in Conds}

\* What follows a block that declared y and f and shadowed x
AfterBlock ==
    {PrintCmd(X), PrintCmd(Y), PrintCmd(FunctionApp("f", <<N(1)>>)), Assign("y", N(0)),
     VarDecl("y", X)}

\* var x = 1; if <cond> then (var y = 2; function f(a) = x + a; var x = 5;
\* print f(y); print x) else (var y = 3; print y); <after>; print x
\* and the same block as the body of a loop that ends when the outer x is 3
BlockPrograms ==
    {<<VarDecl("x", N(1)),
       IfElse(cond, <<VarDecl("y", N(2)), DeclF, VarDecl("x", N(5)),
                      PrintCmd(FunctionApp("f", <<Y>>)), PrintCmd(X)>>,
              <<VarDecl("y", N(3)), PrintCmd(Y)>>),
       after, PrintCmd(X)>> : cond \in {Bool(TRUE), Bool(FALSE)}, after \in AfterBlock}
    \cup
    {<<VarDecl("x", N(1)),
       While(Apply("<", <<X, N(3)>>),
             <<VarDecl("y", X), Assign("x", Plus(X, N(1))), DeclF, VarDecl("x", N(5)),
               PrintCmd(FunctionApp("f", <<Y>>)), PrintCmd(X)>>),
       after, PrintCmd(X)>> : after \in AfterBlock}

\* Loops: one that never runs its body, conditions that are not boolean or
\* fail, a condition on a name only the body declares, a body that shadows the
\* name of the condition, nested loops, a loop that does not end
WhilePrograms ==
    { <<VarDecl("x", N(1)), While(Bool(FALSE), <<VarDecl("y", N(2)), PrintCmd(Y)>>),
        PrintCmd(X)>>,
      <<VarDecl("x", N(1)), While(N(1), <<PrintCmd(X)>>), PrintCmd(X)>>,
      <<VarDecl("x", N(1)), While(X, <<PrintCmd(X)>>), PrintCmd(X)>>,
      <<VarDecl("x", N(1)), While(DivZero, <<PrintCmd(X)>>), PrintCmd(X)>>,
      <<VarDecl("x", N(0)),
        While(Apply("<", <<Plus(X, Y), N(2)>>), <<VarDecl("y", N(0)), PrintCmd(Y)>>)>>,
      <<VarDecl("x", N(0)),
        While(Apply("<", <<X, N(1)>>), <<VarDecl("y", N(0)), Assign("x", N(1))>>),
        While(Apply("<", <<Y, N(1)>>), <<PrintCmd(X)>>)>>,
      <<VarDecl("x", N(0)),
        While(Apply("<", <<X, N(2)>>),
              <<Assign("x", Plus(X, N(1))), VarDecl("x", N(10)), PrintCmd(X)>>),
        PrintCmd(X)>>,
      <<VarDecl("x", N(0)),
        While(Apply("<", <<X, N(2)>>),
              <<VarDecl("i", N(0)),
                While(Apply("<", <<Var("i"), N(1)>>),
                      <<VarDecl("j", Plus(X, Var("i"))), PrintCmd(Var("j")),
                        Assign("i", Plus(Var("i"), N(1)))>>),
                Assign("x", Plus(X, N(1)))>>)>>,
      <<VarDecl("x", N(0)), While(Bool(TRUE), <<Assign("x", Plus(X, N(1)))>>)>> }

\* Assignments: the target is unbound, is bound to an operator, to a function
\* or to a value; the expression fails; the value has another type
AssignPrograms ==
    { <<Assign("x", N(1))>>,
      <<Assign("+", N(1))>>,
      <<DeclF, Assign("f", N(1))>>,
      <<VarDecl("x", N(1)), Assign("x", DivZero), PrintCmd(X)>>,
      <<VarDecl("x", N(1)), Assign("x", Y), PrintCmd(X)>>,
      <<VarDecl("x", N(1)), Assign("x", Apply("+", <<X, Bool(TRUE)>>))>>,
      <<VarDecl("x", N(1)), Assign("x", Bool(TRUE)), PrintCmd(X)>> }

\* Functions that name themselves in their body, where the name was unbound,
\* a function, a variable or is a parameter; and a function of a variable
\* that is assigned to and redeclared between the calls
FunctionPrograms ==
    { <<FunctionDecl("f", <<"a">>, FunctionApp("f", <<A>>)),
        PrintCmd(FunctionApp("f", <<N(1)>>))>>,
      <<FunctionDecl("f", <<"a">>, A),
        FunctionDecl("f", <<"a">>, Plus(FunctionApp("f", <<A>>), N(1))),
        PrintCmd(FunctionApp("f", <<N(1)>>))>>,
      <<VarDecl("f", N(5)), FunctionDecl("f", <<"a">>, Plus(Var("f"), A)),
        PrintCmd(FunctionApp("f", <<N(1)>>))>>,
      <<VarDecl("f", N(5)), FunctionDecl("f", <<"a">>, FunctionApp("f", <<A>>)),
        PrintCmd(FunctionApp("f", <<N(1)>>))>>,
      <<FunctionDecl("f", <<"f">>, FunctionApp("f", <<N(1)>>)),
        PrintCmd(FunctionApp("f", <<N(2)>>))>>,
      <<VarDecl("x", N(1)), DeclF, PrintCmd(FunctionApp("f", <<N(1)>>)),
        Assign("x", N(10)), PrintCmd(FunctionApp("f", <<N(1)>>)),
        VarDecl("x", N(100)), PrintCmd(FunctionApp("f", <<N(1)>>))>>,
      <<VarDecl("x", N(0)), DeclF,
        While(Apply("<", <<X, N(2)>>),
              <<Assign("x", Plus(X, N(1))), PrintCmd(FunctionApp("f", <<N(0)>>))>>)>> }

\* let expressions: inside a larger expression, before a later command, over a
\* declared variable of the same name, nested, and in a declaration and an
\* assignment
LetPrograms ==
    { <<VarDecl("x", N(1)), PrintCmd(Plus(Let("x", N(7), X), X)), PrintCmd(X),
        Assign("x", N(2)), PrintCmd(X)>>,
      <<PrintCmd(Let("n", N(7), Var("n"))), PrintCmd(Var("n"))>>,
      <<PrintCmd(Plus(Let("n", N(7), Var("n")), Var("n")))>>,
      <<VarDecl("x", N(1)), PrintCmd(Let("y", N(7), Plus(X, Y))), VarDecl("z", N(3)),
        PrintCmd(Var("z")), PrintCmd(Y)>>,
      <<VarDecl("x", N(1)), VarDecl("y", Let("x", N(7), Plus(X, N(1)))), PrintCmd(Y),
        PrintCmd(X), Assign("x", Let("x", N(5), X)), PrintCmd(X)>>,
      <<PrintCmd(Let("x", N(1), Plus(Let("x", N(2), X), X)))>>,
      <<VarDecl("x", N(1)), PrintCmd(Let("x", Plus(X, N(1)), Let("x", Plus(X, X), X))),
        PrintCmd(X)>>,
      <<VarDecl("x", N(1)), PrintCmd(Let("x", DivZero, X)), PrintCmd(X)>> }

\* The test programs
TestPrograms ==
    {GCDProgram, BlockFunctionProgram, BlockFunctionAssignProgram,
     DeclareThenPrintProgram, PrintAssignPrintProgram}
    \cup ArithmeticPrograms \cup VarDeclPrograms \cup IfElsePrograms \cup BlockPrograms
    \cup WhilePrograms \cup AssignPrograms \cup FunctionPrograms \cup LetPrograms

(***************************************************************************)
(* State                                                                   *)
(***************************************************************************)

VARIABLES
    repl_env,    \* REPL: env
    repl_state,  \* REPL: state
    repl_alloc,  \* history: the addresses allocate returned in repl_state's lineage
    stack,       \* the activations of execute_command_seq, and above them those
                 \* of evaluate_expr where it is run step by step, innermost last
    out,         \* the values printed since the last prompt
    error,       \* the message of the "Error: ..." line, <<>> if none was printed
    lines,       \* programs read so far
    steps,       \* commands executed by the current program
    last         \* history: the step just taken and the activation it acted in

vars == <<repl_env, repl_state, repl_alloc, stack, out, error, lines, steps, last>>

\* History kept with the command sequence that runs a block: the state at the
\* block's entry and the addresses assigned to since.
NoBlock == [active |-> FALSE, env |-> <<>>, state |-> empty_state, assigned |-> {}]

\* An activation of execute_command_seq(seq, env, state): the commands still to
\* run (the first one is the one a nested activation belongs to), the current
\* env and state, and for a block the caller's saved_next_loc.  blk, ever and
\* live are history: ever holds the addresses allocate returned in this state's
\* lineage, live those not allocated by a block that has ended since; seq is
\* the sequence the activation was called with.
Frame(kind, todo, env, state, saved_next_loc, ever, live) ==
    [kind |-> kind, todo |-> todo, env |-> env, state |-> state,
     saved_next_loc |-> saved_next_loc, blk |-> NoBlock, ever |-> ever, live |-> live,
     seq |-> todo]

NoFrame == Frame("none", <<>>, <<>>, empty_state, 0, {}, {})

Top == stack[Len(stack)]

Idle == stack = <<>>

\* The command execute_command is called with next
AtCommand(kind) ==
    /\ ~Idle
    /\ Top.todo # <<>>
    /\ Head(Top.todo).c = kind
    /\ steps < MaxSteps

Init ==
    /\ repl_env = create_initial_env_state.env
    /\ repl_state = create_initial_env_state.state
    /\ repl_alloc = [ever |-> {}, live |-> {}]
    /\ stack = <<>>
    /\ out = <<>>
    /\ error = <<>>
    /\ lines = 0
    /\ steps = 0
    /\ last = [op |-> "init", cmd |-> <<>>, frame |-> NoFrame, blk |-> NoBlock]

(***************************************************************************)
(* The REPL and the executor, one command per step                         *)
(***************************************************************************)

\* REPL: program = input(...); execute_command_seq(command_seq, env, state) is
\* entered with the REPL's env and state.
REPLRead(programs) ==
    /\ Idle
    /\ lines < MaxLines
    /\ \E program \in programs :
          /\ stack' = <<Frame("top", program, repl_env, repl_state, repl_state.next_loc,
                              repl_alloc.ever, repl_alloc.live)>>
          /\ last' = [op |-> "REPLRead", cmd |-> program, frame |-> NoFrame, blk |-> NoBlock]
    /\ out' = <<>>
    /\ error' = <<>>
    /\ lines' = lines + 1
    /\ steps' = 0
    /\ UNCHANGED <<repl_env, repl_state, repl_alloc>>

\* Mutant of REPLExcept: the REPL goes on with what the failing sequence had
\* reached
REPLExcept_partial(msg) ==
    /\ stack' = <<>>
    /\ error' = msg
    /\ out' = out
    /\ repl_env' = stack[1].env
    /\ repl_state' = stack[1].state
    /\ repl_alloc' = [ever |-> stack[1].ever, live |-> stack[1].live]

\* REPL: except Exception as e: print(f"Error: {e}").  The exception unwinds
\* every activation; the assignment to env, state does not take place.
REPLExcept(msg) ==
    /\ stack' = <<>>
    /\ error' = msg
    /\ out' = out
    /\ UNCHANGED <<repl_env, repl_state, repl_alloc>>

\* Mutant of Continue: what a command prints is put before what was printed
Continue_output_first(r, frame) ==
    /\ stack' = [stack EXCEPT ![Len(stack)] =
                    [frame EXCEPT !.todo = Tail(@), !.env = r.env, !.state = r.state]]
    /\ out' = r.printed \o out
    /\ error' = error
    /\ UNCHANGED <<repl_env, repl_state, repl_alloc>>

\* execute_command_seq goes on with seq.rest, env1 and state1
Continue(r, frame) ==
    /\ stack' = [stack EXCEPT ![Len(stack)] =
                    [frame EXCEPT !.todo = Tail(@), !.env = r.env, !.state = r.state]]
    /\ out' = out \o r.printed
    /\ error' = error
    /\ UNCHANGED <<repl_env, repl_state, repl_alloc>>

Taken(op) == [op |-> op, cmd |-> Head(Top.todo), frame |-> Top, blk |-> Top.blk]

ExecVarDecl ==
    /\ AtCommand("VarDecl")
    /\ LET r == execute_VarDecl(Head(Top.todo), Top.env, Top.state)
           a == Top.state.next_loc
       IN  IF r.ok
           THEN Continue(r, [Top EXCEPT !.ever = @ \cup {a}, !.live = @ \cup {a}])
           ELSE REPLExcept(r.err)
    /\ last' = Taken("VarDecl")
    /\ steps' = steps + 1
    /\ lines' = lines

\* The address an Assign writes to, for the history of the enclosing blocks
AssignedBy(cmd, env) ==
    LET dval == lookup(env, cmd.name)
    IN  IF dval.ok /\ dval.val.k = "loc" THEN {dval.val.address} ELSE {}

ExecAssign ==
    /\ AtCommand("Assign")
    /\ LET r == execute_Assign(Head(Top.todo), Top.env, Top.state)
           noted == [i \in DOMAIN stack |->
                       IF stack[i].blk.active
                       THEN [stack[i] EXCEPT !.blk.assigned =
                                @ \cup AssignedBy(Head(Top.todo), Top.env)]
                       ELSE stack[i]]
       IN  IF r.ok
           THEN /\ stack' = [noted EXCEPT ![Len(stack)] =
                                [@ EXCEPT !.todo = Tail(@), !.env = r.env, !.state = r.state]]
                /\ out' = out
                /\ error' = error
                /\ UNCHANGED <<repl_env, repl_state, repl_alloc>>
           ELSE REPLExcept(r.err)
    /\ last' = Taken("Assign")
    /\ steps' = steps + 1
    /\ lines' = lines

ExecPrint ==
    /\ AtCommand("Print")
    /\ LET r == execute_Print(Head(Top.todo), Top.env, Top.state)
       IN  IF r.ok THEN Continue(r, Top) ELSE REPLExcept(r.err)
    /\ last' = Taken("Print")
    /\ steps' = steps + 1
    /\ lines' = lines

ExecFunctionDecl ==
    /\ AtCommand("FunctionDecl")
    /\ LET r == execute_FunctionDecl(Head(Top.todo), Top.env, Top.state)
       IN  IF r.ok THEN Continue(r, Top) ELSE REPLExcept(r.err)
    /\ last' = Taken("FunctionDecl")
    /\ steps' = steps + 1
    /\ lines' = lines

\* The nested execute_command_seq(branch, env, state) of IfElse and While
EnterBlock(kind, seq, cond_val) ==
    LET entered == [active |-> TRUE, env |-> Top.env, state |-> cond_val.state,
                    assigned |-> {}]
        caller == [Top EXCEPT !.state = cond_val.state,
                              !.blk = IF @.active THEN @ ELSE entered]
        callee == Frame(kind, seq, Top.env, cond_val.state, cond_val.state.next_loc,
                        Top.ever, Top.live)
    IN  /\ stack' = [stack EXCEPT ![Len(stack)] = caller] \o <<callee>>
        /\ out' = out
        /\ error' = error
        /\ UNCHANGED <<repl_env, repl_state, repl_alloc>>

\* IfElse up to the call that runs the chosen branch
ExecIfElse ==
    /\ AtCommand("IfElse")
    /\ LET cmd == Head(Top.todo)
           cond_val == evaluate_cond(cmd, Top.env, Top.state)
       IN  IF ~cond_val.ok THEN REPLExcept(cond_val.err)
           ELSE IF cond_val.val.b THEN EnterBlock("if", cmd.then_branch, cond_val)
           ELSE EnterBlock("if", cmd.else_branch, cond_val)
    /\ last' = Taken("IfElse")
    /\ steps' = steps + 1
    /\ lines' = lines

\* Mutant of ReturnToCaller: the caller goes on with the environment the block
\* ended with
ReturnToCaller_block_env(redo) ==
    LET callee == Top
        caller == stack[Len(stack) - 1]
        state2 == restore_next_loc(callee.state, callee.saved_next_loc)
    IN  /\ stack' = [SubSeq(stack, 1, Len(stack) - 1) EXCEPT ![Len(stack) - 1] =
                        [caller EXCEPT !.todo = IF redo THEN @ ELSE Tail(@),
                                       !.env = callee.env,
                                       !.state = state2,
                                       !.blk = IF redo THEN @ ELSE NoBlock,
                                       !.ever = callee.ever]]
        /\ last' = [op |-> IF redo THEN "ExitWhile" ELSE "ExitIfElse",
                    cmd |-> Head(caller.todo), frame |-> callee, blk |-> caller.blk]
        /\ UNCHANGED <<repl_env, repl_state, repl_alloc, out, error, lines, steps>>

\* The nested sequence of a block has returned: the caller goes on with its
\* own env and with state2, the callee's store under the saved next_loc.
ReturnToCaller(redo) ==
    LET callee == Top
        caller == stack[Len(stack) - 1]
        state2 == restore_next_loc(callee.state, callee.saved_next_loc)
    IN  /\ stack' = [SubSeq(stack, 1, Len(stack) - 1) EXCEPT ![Len(stack) - 1] =
                        [caller EXCEPT !.todo = IF redo THEN @ ELSE Tail(@),
                                       !.state = state2,
                                       !.blk = IF redo THEN @ ELSE NoBlock,
                                       !.ever = callee.ever]]
        /\ last' = [op |-> IF redo THEN "ExitWhile" ELSE "ExitIfElse",
                    cmd |-> Head(caller.todo), frame |-> callee, blk |-> caller.blk]
        /\ UNCHANGED <<repl_env, repl_state, repl_alloc, out, error, lines, steps>>

\* IfElse after its branch: return env, state2
ExitIfElse ==
    /\ ~Idle
    /\ Top.kind = "if"
    /\ Top.todo = <<>>
    /\ ReturnToCaller(FALSE)

\* While up to the call that runs the body, or its return when cond is false
ExecWhile ==
    /\ AtCommand("While")
    /\ LET cmd == Head(Top.todo)
           cond_val == evaluate_cond(cmd, Top.env, Top.state)
       IN  IF ~cond_val.ok THEN REPLExcept(cond_val.err)
           ELSE IF cond_val.val.b THEN EnterBlock("while", cmd.body, cond_val)
           ELSE Continue(XReturn(Top.env, cond_val.state, <<>>), [Top EXCEPT !.blk = NoBlock])
    /\ LET cond_val == evaluate_cond(Head(Top.todo), Top.env, Top.state)
       IN  last' = Taken(IF cond_val.ok /\ ~cond_val.val.b THEN "WhileDone" ELSE "While")
    /\ steps' = steps + 1
    /\ lines' = lines

\* Mutant of ExitWhile: the loop is left after its body has run once
ExitWhile_once ==
    /\ ~Idle
    /\ Top.kind = "while"
    /\ Top.todo = <<>>
    /\ ReturnToCaller(FALSE)

\* While after its body: return execute_command(While(cond, body), env, state2)
ExitWhile ==
    /\ ~Idle
    /\ Top.kind = "while"
    /\ Top.todo = <<>>
    /\ ReturnToCaller(TRUE)

\* REPL: env, state = execute_command_seq(command_seq, env, state) has returned
REPLAssign ==
    /\ ~Idle
    /\ Top.kind = "top"
    /\ Top.todo = <<>>
    /\ repl_env' = Top.env
    /\ repl_state' = Top.state
    /\ repl_alloc' = [ever |-> Top.ever, live |-> Top.live]
    /\ stack' = <<>>
    /\ last' = [op |-> "REPLAssign", cmd |-> <<>>, frame |-> Top, blk |-> NoBlock]
    /\ UNCHANGED <<out, error, lines, steps>>

Execute ==
    \/ ExecVarDecl
    \/ ExecAssign
    \/ ExecPrint
    \/ ExecFunctionDecl
    \/ ExecIfElse
    \/ ExitIfElse
    \/ ExecWhile
    \/ ExitWhile
    \/ REPLAssign

Next == REPLRead(Programs) \/ Execute

Spec == Init /\ [][Next]_vars

\* run_tests: execute_program(program) runs one test program from the initial
\* environment and the empty state.
ExecuteProgram(programs) ==
    /\ Idle
    /\ lines = 0
    /\ \E program \in programs :
          /\ stack' = <<Frame("program", program, create_initial_env_state.env,
                              create_initial_env_state.state, 0, {}, {})>>
          /\ last' = [op |-> "execute_program", cmd |-> program, frame |-> NoFrame,
                      blk |-> NoBlock]
    /\ out' = <<>>
    /\ error' = <<>>
    /\ lines' = 1
    /\ steps' = 0
    /\ UNCHANGED <<repl_env, repl_state, repl_alloc>>

\* run_tests: execute_program has returned; its result is not kept
ProgramReturn ==
    /\ ~Idle
    /\ Top.kind = "program"
    /\ Top.todo = <<>>
    /\ stack' = <<>>
    /\ last' = [op |-> "ProgramReturn", cmd |-> <<>>, frame |-> Top, blk |-> NoBlock]
    /\ UNCHANGED <<repl_env, repl_state, repl_alloc, out, error, lines, steps>>

\* One test program that probes the evaluator: declarations, then print <expr>
NextEval ==
    \/ ExecuteProgram(EvalPrograms)
    \/ ExecVarDecl
    \/ ExecFunctionDecl
    \/ ExecPrint
    \/ ExecIfElse
    \/ ExitIfElse
    \/ ProgramReturn

SpecEval == Init /\ [][NextEval]_vars

\* run_tests on one of the test programs
NextTests ==
    \/ ExecuteProgram(TestPrograms)
    \/ ExecVarDecl
    \/ ExecAssign
    \/ ExecPrint
    \/ ExecFunctionDecl
    \/ ExecIfElse
    \/ ExitIfElse
    \/ ExecWhile
    \/ ExitWhile
    \/ ProgramReturn

SpecTests == Init /\ [][NextTests]_vars

\* A program is there to be started, or the running activation has a command
\* to execute: one of the steps of ExecCommand is enabled
CanExecute == (Idle /\ lines = 0) \/ (~Idle /\ Top.todo # <<>> /\ steps < MaxSteps)

ExecCommand ==
    \/ ExecuteProgram(TestPrograms)
    \/ ExecVarDecl
    \/ ExecAssign
    \/ ExecPrint
    \/ ExecFunctionDecl
    \/ ExecIfElse
    \/ ExecWhile

\* The interpreter does not stop while it has something to do: a sequence
\* that has run its commands returns, and a command that can be executed is
\* executed.  The last conjunct is WF_vars(ExecCommand) with ENABLED written
\* out as CanExecute.
SpecTestsLive ==
    /\ SpecTests
    /\ WF_vars(ExitIfElse)
    /\ WF_vars(ExitWhile)
    /\ WF_vars(ProgramReturn)
    /\ ([]<>~CanExecute \/ []<><<ExecCommand>>_vars)

(***************************************************************************)
(* evaluate_expr one activation at a time                                  *)
(*                                                                         *)
(* The expression of a print is evaluated by activations of evaluate_expr  *)
(* that are put on the stack above the activation of execute_command_seq   *)
(* that runs the print: an activation calls evaluate_expr for its next     *)
(* subexpression or for the body of the function it applies, or it returns *)
(* its value to its caller, or it raises.                                  *)
(***************************************************************************)

\* An activation of evaluate_expr(expr, env, state); vals holds what its calls
\* of evaluate_expr have returned so far
Activation(expr, env, state) ==
    [kind |-> "evaluate_expr", todo |-> <<>>, expr |-> expr, env |-> env, state |-> state,
     vals |-> <<>>]

Evaluating == ~Idle /\ Top.kind = "evaluate_expr"

\* What an activation does next: it calls evaluate_expr(expr, env, state), or
\* it ends with the outcome r
CallNext(expr, env) == [call |-> TRUE, expr |-> expr, env |-> env, r |-> EReturn(IntV(0), empty_state)]

EndWith(r) == [call |-> FALSE, expr |-> N(0), env |-> <<>>, r |-> r]

next_step(act) ==
    LET expr == act.expr
        env == act.env
        state == act.state
        n == Len(act.vals)
    IN  CASE expr.e = "Apply" ->
                IF n < Len(expr.args) THEN CallNext(expr.args[n + 1], env)
                ELSE EndWith(apply_outcome(EReturn(act.vals, state), lookup(env, expr.op)))
          [] expr.e = "Let" ->
                IF n = 0 THEN CallNext(expr.expr, env)
                ELSE IF n = 1
                THEN CallNext(expr.body, let_binding(env, state, expr.name, act.vals[1]).env)
                ELSE EndWith(EReturn(act.vals[2], state))
          [] expr.e = "FunctionApp" ->
                LET dval == lookup(env, expr.name)
                IN  IF ~dval.ok THEN EndWith(ERaise(dval.err, state))
                    ELSE IF dval.val.k # "closure"
                    THEN EndWith(ERaise(<<"is not a function">>, state))
                    ELSE IF n < Len(expr.args) THEN CallNext(expr.args[n + 1], env)
                    ELSE IF n = Len(expr.args)
                    THEN IF arity_mismatch(dval.val.function.params, act.vals)
                         THEN EndWith(ERaise(<<"Function expects arguments">>, state))
                         ELSE CallNext(dval.val.function.body,
                                       call_env(dval.val, env, act.vals))
                    ELSE EndWith(EReturn(act.vals[n], state))
          [] OTHER -> EndWith(evaluate_expr(expr, env, state))

\* The activation of execute_command_seq whose print is being evaluated
Printing ==
    stack[CHOOSE i \in DOMAIN stack :
             /\ stack[i].kind # "evaluate_expr"
             /\ \A j \in DOMAIN stack : j > i => stack[j].kind = "evaluate_expr"]

\* Print: value = evaluate_expr(expr, env, state) is called
CallEvaluate ==
    /\ AtCommand("Print")
    /\ stack' = Append(stack, Activation(Head(Top.todo).expr, Top.env, Top.state))
    /\ last' = Taken("evaluate_expr")
    /\ UNCHANGED <<repl_env, repl_state, repl_alloc, out, error, lines, steps>>

\* An activation calls evaluate_expr
EvaluateCall ==
    /\ Evaluating
    /\ next_step(Top).call
    /\ Len(stack) < MaxDepth
    /\ stack' = Append(stack, Activation(next_step(Top).expr, next_step(Top).env, Top.state))
    /\ last' = [op |-> "evaluate_expr", cmd |-> Head(Printing.todo), frame |-> Printing,
                blk |-> Printing.blk]
    /\ UNCHANGED <<repl_env, repl_state, repl_alloc, out, error, lines, steps>>

\* An activation returns to the activation of evaluate_expr that called it
EvaluateReturn ==
    /\ Evaluating
    /\ ~next_step(Top).call
    /\ next_step(Top).r.ok
    /\ stack[Len(stack) - 1].kind = "evaluate_expr"
    /\ stack' = [SubSeq(stack, 1, Len(stack) - 1) EXCEPT ![Len(stack) - 1] =
                    [@ EXCEPT !.vals = Append(@, next_step(Top).r.val)]]
    /\ last' = [op |-> "evaluate_expr", cmd |-> Head(Printing.todo), frame |-> Printing,
                blk |-> Printing.blk]
    /\ UNCHANGED <<repl_env, repl_state, repl_alloc, out, error, lines, steps>>

\* The outermost activation returns to Print: print(value); return env, state
PrintValue ==
    /\ Evaluating
    /\ ~next_step(Top).call
    /\ next_step(Top).r.ok
    /\ stack[Len(stack) - 1].kind # "evaluate_expr"
    /\ stack' = [SubSeq(stack, 1, Len(stack) - 1) EXCEPT ![Len(stack) - 1] =
                    [@ EXCEPT !.todo = Tail(@)]]
    /\ out' = Append(out, next_step(Top).r.val)
    /\ last' = [op |-> "Print", cmd |-> Head(Printing.todo), frame |-> Printing,
                blk |-> Printing.blk]
    /\ steps' = steps + 1
    /\ UNCHANGED <<repl_env, repl_state, repl_alloc, error, lines>>

\* An activation raises: the exception unwinds every activation
EvaluateRaise ==
    /\ Evaluating
    /\ ~next_step(Top).call
    /\ ~next_step(Top).r.ok
    /\ REPLExcept(next_step(Top).r.err)
    /\ last' = [op |-> "Print", cmd |-> Head(Printing.todo), frame |-> Printing,
                blk |-> Printing.blk]
    /\ steps' = steps + 1
    /\ lines' = lines

Evaluate == EvaluateCall \/ EvaluateReturn \/ PrintValue \/ EvaluateRaise

\* Functions that call functions: f, g that calls f twice, h that calls g
\* twice; r that names itself; f declared three times, each calling the one
\* before; g with a parameter f
CallSetups ==
    { <<VarDecl("x", N(1)), DeclF,
        FunctionDecl("g", <<"a">>, FunctionApp("f", <<FunctionApp("f", <<A>>)>>)),
        FunctionDecl("h", <<"a">>, Plus(FunctionApp("g", <<A>>), FunctionApp("g", <<A>>)))>>,
      <<FunctionDecl("f", <<"a">>, FunctionApp("f", <<A>>)),
        FunctionDecl("g", <<"a">>, FunctionApp("g", <<FunctionApp("f", <<A>>)>>))>>,
      <<FunctionDecl("f", <<"a">>, A),
        FunctionDecl("f", <<"a">>, Plus(FunctionApp("f", <<A>>), N(1))),
        FunctionDecl("f", <<"a">>, Plus(FunctionApp("f", <<A>>), N(1))),
        FunctionDecl("g", <<"f">>, Plus(Var("f"), N(1)))>>,
      <<VarDecl("x", N(1)), DeclF, VarDecl("f", N(3)),
        FunctionDecl("g", <<"a">>, FunctionApp("f", <<A>>))>> }

CallExprs ==
    { FunctionApp("h", <<N(1)>>),
      FunctionApp("g", <<FunctionApp("h", <<N(0)>>)>>),
      FunctionApp("f", <<FunctionApp("h", <<FunctionApp("h", <<N(0)>>)>>)>>),
      FunctionApp("f", <<FunctionApp("f", <<N(0)>>)>>),
      FunctionApp("f", <<N(1)>>),
      FunctionApp("g", <<N(1)>>),
      Let("a", FunctionApp("f", <<N(1)>>), FunctionApp("g", <<A>>)),
      Let("f", N(7), FunctionApp("f", <<N(0)>>)),
      FunctionApp("h", <<DivZero>>),
      FunctionApp("h", <<N(1), N(2)>>),
      Plus(FunctionApp("g", <<N(0)>>), Var("zz")),
      Apply("nope", <<FunctionApp("f", <<N(1)>>)>>),
      Plus(Let("x", N(7), FunctionApp("f", <<X>>)), X),
      X, N(7) }

\* declarations; print <expr>; print <expr>
CallPrograms ==
    {setup \o <<PrintCmd(e1), PrintCmd(e2)>> :
        setup \in CallSetups, e1 \in {FunctionApp("g", <<N(1)>>), N(7)}, e2 \in CallExprs}

NextCalls ==
    \/ ExecuteProgram(CallPrograms)
    \/ ExecVarDecl
    \/ ExecFunctionDecl
    \/ CallEvaluate
    \/ EvaluateCall
    \/ EvaluateReturn
    \/ PrintValue
    \/ EvaluateRaise
    \/ ProgramReturn

SpecCalls == Init /\ [][NextCalls]_vars

\* An activation of evaluate_expr that can take a step takes it
SpecCallsLive == SpecCalls /\ WF_vars(Evaluate)

(***************************************************************************)
(* The store primitives called directly, on the state the caller holds     *)
(***************************************************************************)

Called(op, addr, value) ==
    [op |-> op, cmd |-> [addr |-> addr, value |-> value],
     frame |-> [NoFrame EXCEPT !.state = repl_state], blk |-> NoBlock]

\* The caller goes on with the returned state, or sees the ValueError
Returned(r) ==
    /\ IF r.ok THEN repl_state' = r.val /\ error' = <<>>
       ELSE repl_state' = repl_state /\ error' = r.err
    /\ steps' = steps + 1
    /\ UNCHANGED <<repl_env, repl_alloc, stack, out, lines>>

CallAllocate ==
    /\ steps < MaxCalls
    /\ \E value \in StoreValues :
          /\ Returned(Return(allocate(repl_state, value).state))
          /\ last' = Called("allocate", repl_state.next_loc, value)

CallUpdate ==
    /\ steps < MaxCalls
    /\ \E addr \in 0..MaxAddr, value \in StoreValues :
          /\ Returned(update(repl_state, addr, value))
          /\ last' = Called("update", addr, value)

CallUpdateL6 ==
    /\ steps < MaxCalls
    /\ \E addr \in 0..MaxAddr, value \in StoreValues :
          /\ Returned(update_L6(repl_state, addr, value))
          /\ last' = Called("update_L6", addr, value)

CallAccess ==
    /\ steps < MaxCalls
    /\ \E addr \in 0..MaxAddr :
          /\ LET r == access(repl_state, addr)
             IN  IF r.ok THEN Returned(Return(repl_state)) ELSE Returned(r)
          /\ last' = Called("access", addr, access(repl_state, addr).val)

NextStore == CallAllocate \/ CallUpdate \/ CallUpdateL6 \/ CallAccess

SpecStore == Init /\ [][NextStore]_vars

(***************************************************************************)
(* bind and lookup called directly, on the environment the caller holds    *)
(***************************************************************************)

CalledEnv(op, name, value) ==
    [op |-> op, cmd |-> [name |-> name, value |-> value],
     frame |-> [NoFrame EXCEPT !.env = repl_env], blk |-> NoBlock]

\* env = bind(env, name, value)
CallBind ==
    /\ steps < MaxBinds
    /\ \E name \in EnvNames, value \in EnvValues :
          /\ repl_env' = bind(repl_env, name, value)
          /\ last' = CalledEnv("bind", name, value)
    /\ error' = <<>>
    /\ steps' = steps + 1
    /\ UNCHANGED <<repl_state, repl_alloc, stack, out, lines>>

\* lookup(env, name): the caller gets the value, or sees the ValueError
CallLookup ==
    /\ steps < MaxBinds
    /\ \E name \in EnvNames \cup {Unbound} :
          /\ last' = CalledEnv("lookup", name, lookup(repl_env, name).val)
          /\ error' = lookup(repl_env, name).err
    /\ steps' = steps + 1
    /\ UNCHANGED <<repl_env, repl_state, repl_alloc, stack, out, lines>>

NextEnv == CallBind \/ CallLookup

SpecEnv == Init /\ [][NextEnv]_vars

(***************************************************************************)
(* The expression evaluator of Lecture 6                                   *)
(* (06_Conditionals_And_Booleans/conditionals_and_booleans.py), called      *)
(* directly on an expression and an environment of values                  *)
(***************************************************************************)

Boolean(value) == [e |-> "Boolean", bvalue |-> value]

BinOp(op, left, right) == [e |-> "BinOp", op |-> op, left |-> left, right |-> right]

If(cond, then_branch, else_branch) ==
    [e |-> "If", cond |-> cond, then_branch |-> then_branch, else_branch |-> else_branch]

\* empty_env raises NameError on every name
empty_env == <<>>

\* env(name), for an environment built by bind from empty_env
env_call(env, name) ==
    LET I == {i \in DOMAIN env : env[i][1] = name}
    IN  IF I = {} THEN Raise(<<"Unbound variable">>)
        ELSE Return(env[CHOOSE i \in I : \A j \in I : j <= i][2])

\* Python's truth value of an int or a bool
truthy(val) == int_of(val) # 0

\* Mutant of short_circuit: the right operand is always evaluated
short_circuit_never(op, left) == FALSE

\* and: if not left: return False; or: if left: return True
short_circuit(op, left) ==
    \/ op = "and" /\ ~truthy(left)
    \/ op = "or" /\ truthy(left)

\* The operators that evaluate both operands first
binop(op, left, right) ==
    LET l == int_of(left)
        r == int_of(right)
    IN  CASE op = "+"  -> Return(IntV(l + r))
          [] op = "-"  -> Return(IntV(l - r))
          [] op = "*"  -> Return(IntV(l * r))
          [] op = "/"  -> IF r = 0 THEN Raise(<<"ZeroDivisionError">>)
                          ELSE Return(IntV(FloorDiv(l, r)))
          [] op = "==" -> Return(BoolV(l = r))
          [] op = "!=" -> Return(BoolV(l # r))
          [] op = "<"  -> Return(BoolV(l < r))
          [] op = ">"  -> Return(BoolV(l > r))
          [] op = "<=" -> Return(BoolV(l <= r))
          [] op = ">=" -> Return(BoolV(l >= r))
          [] OTHER     -> Raise(<<"Unknown operator">>)

RECURSIVE eval_expr(_, _)
eval_expr(expr, env) ==
    CASE expr.e = "Number" -> Return(IntV(expr.value))
      [] expr.e = "Boolean" -> Return(BoolV(expr.bvalue))
      [] expr.e = "Var" -> env_call(env, expr.name)
      [] expr.e = "Let" ->
            LET value == eval_expr(expr.expr, env)
            IN  IF ~value.ok THEN value
                ELSE eval_expr(expr.body, bind(env, expr.name, value.val))
      [] expr.e = "BinOp" ->
            LET left == eval_expr(expr.left, env)
            IN  IF ~left.ok THEN left
                ELSE IF expr.op \in {"and", "or"}
                THEN IF short_circuit(expr.op, left.val) THEN Return(BoolV(expr.op = "or"))
                     ELSE LET right == eval_expr(expr.right, env)
                          IN  IF ~right.ok THEN right ELSE Return(BoolV(truthy(right.val)))
                ELSE LET right == eval_expr(expr.right, env)
                     IN  IF ~right.ok THEN right ELSE binop(expr.op, left.val, right.val)
      [] expr.e = "If" ->
            LET cond == eval_expr(expr.cond, env)
            IN  IF ~cond.ok THEN cond
                ELSE IF truthy(cond.val) THEN eval_expr(expr.then_branch, env)
                ELSE eval_expr(expr.else_branch, env)
      [] OTHER -> Raise(<<"Unknown expression">>)

\* Example 3: let x = 0 in if (x != 0) and (10 / x > 1) then 1 else 2
TenOverX == BinOp(">", BinOp("/", N(10), X), N(1))

Example3 ==
    Let("x", N(0), If(BinOp("and", BinOp("!=", X, N(0)), TenOverX), N(1), N(2)))

\* Left and right operands of and/or: booleans, integers, comparisons, a
\* division that may fail and an unbound name
LeftOperands ==
    {Boolean(TRUE), Boolean(FALSE), N(0), N(5), X, BinOp("!=", X, N(0)),
     BinOp("/", N(10), X), Var("zz")}

RightOperands == {Boolean(TRUE), Boolean(FALSE), N(0), N(3), TenOverX, Var("zz")}

\* The expressions eval_expr is called with: and/or on those operands, as they
\* are, as the condition of an if, and under a let of x
ExprsL6 ==
    LET junctions == {BinOp(op, l, r) : op \in {"and", "or"}, l \in LeftOperands,
                                        r \in RightOperands}
    IN  junctions
        \cup {If(j, N(1), N(2)) : j \in junctions}
        \cup {Let("x", v, j) : v \in {N(0), N(2)}, j \in junctions}
        \cup {Example3}

\* The environments it is called with: empty_env, and x bound to 0, 5 or true
EnvsL6 ==
    {empty_env} \cup {bind(empty_env, "x", v) : v \in {IntV(0), IntV(5), BoolV(TRUE)}}

\* print("Example 3 result:", eval_expr(ast3, empty_env)): the caller gets the
\* value, or sees the exception
CallEvalExpr ==
    /\ steps < MaxEvals
    /\ \E expr \in ExprsL6, env \in EnvsL6 :
          LET r == eval_expr(expr, env)
          IN  /\ last' = [op |-> "eval_expr", cmd |-> [expr |-> expr],
                          frame |-> [NoFrame EXCEPT !.env = env], blk |-> NoBlock]
              /\ out' = IF r.ok THEN <<r.val>> ELSE <<>>
              /\ error' = r.err
    /\ steps' = steps + 1
    /\ UNCHANGED <<repl_env, repl_state, repl_alloc, stack, lines>>

NextL6 == CallEvalExpr

SpecL6 == Init /\ [][NextL6]_vars

(***************************************************************************)
(* Properties                                                              *)
(*                                                                         *)
(* last holds the command just executed and the activation (env, state) it *)
(* was executed in; what the command did is read off the current state.    *)
(***************************************************************************)

\* The expression of the command just executed, and where it was evaluated
LastExpr == last.cmd.expr

LastEnv == last.frame.env

LastState == last.frame.state

\* The command just executed raised: the exception emptied the stack
LastRaised == Idle /\ last.op \in {"VarDecl", "Assign", "Print", "FunctionDecl", "IfElse",
                                    "While", "WhileDone"}

\* The print just executed had outcome r of evaluate_expr
PrintOutcome(r) ==
    IF r.ok THEN ~LastRaised /\ out # <<>> /\ out[Len(out)] = r.val
    ELSE LastRaised /\ error = r.err

\* The names an environment binds
NamesOf(env) == {env[i][1] : i \in DOMAIN env}

\* params bound to vals one after the other on top of env
BoundOver(env, params, vals) ==
    env \o [i \in 1..Len(params) |-> <<params[i], vals[i]>>]

\* C1: Apply("and", [L, R]) with L false is false, and Apply("or", [L, R]) with
\* L true is true, without raising, whatever evaluating R would do.
C1_ShortCircuit ==
    (last.op = "Print" /\ LastExpr.e = "Apply" /\ LastExpr.op \in {"and", "or"}
       /\ Len(LastExpr.args) = 2)
    => LET l == evaluate_expr(LastExpr.args[1], LastEnv, LastState)
           absorbing == BoolV(LastExpr.op = "or")
       IN  (l.ok /\ l.val = absorbing) => PrintOutcome(EReturn(absorbing, LastState))

\* C6: evaluate_expr leaves the state it is given as it was, whether it returns
\* or raises: same mapping, same next_loc; and the state a print returns is the
\* state it was given.
C6_EvaluateKeepsState ==
    (last.op \in {"Print", "VarDecl"})
    => /\ evaluate_expr(LastExpr, LastEnv, LastState).state = LastState
       /\ (last.op = "Print" /\ ~LastRaised) => Top.state = LastState

\* C6 witness: a let whose body calls a function was evaluated and printed
C6_Witness ==
    /\ last.op = "Print"
    /\ LastExpr = Let("a", N(7), FunctionApp("f", <<Var("a")>>))
    /\ ~LastRaised
    /\ out = <<IntV(8)>>

\* C9: a call evaluates its arguments in the caller's environment and the body
\* in the closure's environment extended with the parameters: in the body a
\* parameter denotes its argument, every other name what it denotes in the
\* closure's environment, and a body that is a name bound in neither raises
\* the undefined-name error even if the caller's environment binds the name.
C9_StaticScoping ==
    (last.op = "Print" /\ LastExpr.e = "FunctionApp")
    => LET dval == lookup(LastEnv, LastExpr.name)
       IN  (dval.ok /\ dval.val.k = "closure")
           => LET closure == dval.val
                  params == closure.function.params
                  body == closure.function.body
                  as == evaluate_args(LastExpr.args, LastEnv, LastState)
              IN  (as.ok /\ Len(as.val) = Len(params))
                  => /\ PrintOutcome(evaluate_expr(body,
                                        BoundOver(closure.env, params, as.val), LastState))
                     /\ \A i \in DOMAIN params :
                           (\A j \in DOMAIN params : params[j] = params[i] => j <= i)
                           => lookup(call_env(closure, LastEnv, as.val), params[i])
                                 = Return(as.val[i])
                     /\ \A n \in NamesOf(LastEnv) :
                           (\A i \in DOMAIN params : params[i] # n)
                           => lookup(call_env(closure, LastEnv, as.val), n)
                                 = lookup(closure.env, n)
                     /\ (body.e = "Var" /\ (\A i \in DOMAIN params : params[i] # body.name)
                           /\ ~lookup(closure.env, body.name).ok)
                        => LastRaised /\ error = <<"Variable error", "Undefined identifier">>

\* C9 witness: h(a) = y was declared before y; h(7) is called where y is bound
C9_Witness ==
    /\ last.op = "Print"
    /\ LastExpr = FunctionApp("h", <<N(7)>>)
    /\ lookup(LastEnv, "y").ok
    /\ LastRaised
    /\ error = <<"Variable error", "Undefined identifier">>

\* C10: applying an operator raises the arity error when the number of
\* arguments is not the declared one, else the type error when some argument
\* has another type than declared at its position, and only else calls the
\* operator's function.
C10_OperatorChecks ==
    (last.op = "Print" /\ LastExpr.e = "Apply")
    => LET as == evaluate_args(LastExpr.args, LastEnv, LastState)
           op_val == lookup(LastEnv, LastExpr.op)
       IN  (as.ok /\ op_val.ok /\ op_val.val.k = "op")
           => LET declared == op_val.val.type[1]
                  r == call_fn(op_val.val.fn, as.val)
              IN  IF Len(as.val) # Len(declared)
                  THEN LastRaised /\ error = <<"Operator expects arguments">>
                  ELSE IF \E i \in DOMAIN declared : as.val[i].k # declared[i]
                  THEN LastRaised /\ error = <<"Operator argument expects type">>
                  ELSE IF r.ok THEN PrintOutcome(EReturn(r.val, LastState))
                  ELSE PrintOutcome(ERaise(r.err, LastState))

\* C10 witness: true / 0 raised the type error, not the division by zero
C10_Witness ==
    /\ last.op = "Print"
    /\ LastExpr = Apply("/", <<Bool(TRUE), N(0)>>)
    /\ LastRaised
    /\ error = <<"Operator argument expects type">>

\* The environment in which the visible binding of name was made
DeclEnv(env, name) ==
    LET I == {i \in DOMAIN env : env[i][1] = name}
        at == CHOOSE i \in I : \A j \in I : j <= i
    IN  SubSeq(env, 1, at - 1)

\* C3: a call resolves the names of the function's body to the bindings they
\* had when the function was declared, whatever was bound since: the call has
\* the outcome of the body evaluated in the declaration-time environment
\* extended with the parameters.
C3_ClosureCapture ==
    (last.op = "Print" /\ LastExpr.e = "FunctionApp")
    => LET dval == lookup(LastEnv, LastExpr.name)
       IN  (dval.ok /\ dval.val.k = "closure")
           => LET closure == dval.val
                  params == closure.function.params
                  declared == DeclEnv(LastEnv, LastExpr.name)
                  as == evaluate_args(LastExpr.args, LastEnv, LastState)
              IN  (as.ok /\ Len(as.val) = Len(params))
                  => /\ PrintOutcome(evaluate_expr(closure.function.body,
                                        BoundOver(declared, params, as.val), LastState))
                     /\ \A n \in NamesOf(LastEnv) :
                           (\A i \in DOMAIN params : params[i] # n)
                           => lookup(call_env(closure, LastEnv, as.val), n)
                                 = lookup(declared, n)

\* C3 witness: f(a) = x + a was declared with x = 1, x was redeclared as 2 or
\* rebound to a function, and f(7) printed 8
C3_Witness ==
    /\ last.op = "Print"
    /\ LastExpr = FunctionApp("f", <<N(7)>>)
    /\ lookup(LastEnv, "f").ok
    /\ lookup(LastEnv, "x") # lookup(DeclEnv(LastEnv, "f"), "x")
    /\ ~LastRaised
    /\ out[Len(out)] = IntV(8)

\* C2: when an IfElse or a While has completed, next_loc is what it was when
\* the command was entered, and every name the environment bound to an address
\* then is bound to the same address and, unless that address was assigned to
\* inside the block, holds the same value.
C2_BlockReclamation ==
    (last.op \in {"ExitIfElse", "WhileDone"} /\ last.blk.active /\ ~LastRaised)
    => /\ Top.state.next_loc = last.blk.state.next_loc
       /\ \A n \in NamesOf(last.blk.env) :
             lookup(last.blk.env, n).val.k = "loc"
             => /\ lookup(Top.env, n) = lookup(last.blk.env, n)
                /\ lookup(last.blk.env, n).val.address \notin last.blk.assigned
                   => access(Top.state, lookup(last.blk.env, n).val.address)
                         = access(last.blk.state, lookup(last.blk.env, n).val.address)

\* C2 witness: a loop has completed whose body declared a variable in every
\* iteration and assigned to a variable declared before the loop
C2_Witness ==
    /\ last.op = "WhileDone"
    /\ last.blk.active
    /\ ~LastRaised
    /\ last.blk.assigned # {}
    /\ \E a \in Top.ever : a >= Top.state.next_loc

\* The bindings of env, and of the environments its closures captured, denote
\* pairwise distinct addresses below next_loc
RECURSIVE EnvSound(_, _)
EnvSound(env, next_loc) ==
    \A i \in DOMAIN env :
       /\ env[i][2].k = "loc"
          => /\ env[i][2].address < next_loc
             /\ \A j \in DOMAIN env :
                   (j # i /\ env[j][2].k = "loc") => env[j][2].address # env[i][2].address
       /\ env[i][2].k = "closure" => EnvSound(env[i][2].env, next_loc)

\* C4: at every point, the addresses bound in the environment in use and in
\* the environments of its closures are distinct for distinct declarations and
\* below the next_loc of the state in use, so the next allocate returns none
\* of them.
C4_NoReuseWhileReachable ==
    /\ EnvSound(repl_env, repl_state.next_loc)
    /\ \A i \in DOMAIN stack : EnvSound(stack[i].env, stack[i].state.next_loc)

\* C4 witness: inside a block, a declaration got an address that a block ended
\* since had handed out before
C4_Witness ==
    /\ last.op = "VarDecl"
    /\ ~LastRaised
    /\ Len(stack) > 1
    /\ LastState.next_loc \in last.frame.ever

\* C5, as claimed: next_loc is above every address allocate ever returned in
\* the state's lineage.
C5_NextLocAboveEver ==
    /\ \A a \in repl_alloc.ever : a < repl_state.next_loc
    /\ \A i \in DOMAIN stack : \A a \in stack[i].ever : a < stack[i].state.next_loc

\* C5, amended: next_loc is above every address allocate returned in the
\* state's lineage outside the blocks that have ended since.
C5_NextLocAboveLive ==
    /\ \A a \in repl_alloc.live : a < repl_state.next_loc
    /\ \A i \in DOMAIN stack : \A a \in stack[i].live : a < stack[i].state.next_loc

\* C5 witness: a block that allocated has ended and the sequence goes on
C5_Witness ==
    /\ ~Idle
    /\ Top.live # {}
    /\ Top.ever # Top.live

\* C7: update and access fail on an address that is not allocated in the state
C7_UpdateRequiresAllocated ==
    (last.op \in {"update", "update_L6", "access"}
       /\ last.cmd.addr \notin DOMAIN LastState.store)
    => (error # <<>> /\ repl_state = LastState)

\* C8, as claimed: after a failure the caller goes on with the environment and
\* state that the commands before the failing one had produced.
C8_PrecedingEffectsKept ==
    (LastRaised /\ last.frame.kind = "top")
    => (repl_env = LastEnv /\ repl_state = LastState)

\* C8, amended: a failing command commits nothing, of itself or of the commands
\* before it in the sequence: the REPL goes on with the environment and state
\* it entered the sequence with; what was printed stays printed.
C8_FailureCommitsNothing ==
    [][LastRaised' => (repl_env' = repl_env /\ repl_state' = repl_state /\ out' = out)]_vars

\* C8 witness: a sequence failed after commands that declared, assigned and
\* printed
C8_Witness ==
    /\ LastRaised
    /\ last.frame.kind = "top"
    /\ LastState # repl_state
    /\ LastEnv # repl_env
    /\ out # <<>>

\* C11: a failing Assign(name, e) tells its caller why it failed: the
\* undefined-name error when name is unbound, the "is not a variable" error
\* when name is bound to something that is not an address, and the error of e
\* when evaluating e fails.
C11_AssignErrorKinds ==
    (last.op = "Assign" /\ LastRaised)
    => LET dval == lookup(LastEnv, last.cmd.name)
       IN  IF ~dval.ok
           THEN error \in {<<"Undefined identifier">>, <<"Assignment to undeclared variable">>}
           ELSE IF dval.val.k # "loc"
           THEN error = <<"Assignment target is not a variable">>
           ELSE error = evaluate_expr(LastExpr, LastEnv, LastState).err

\* C12: the GCD program, once started, ends; when it has ended it has printed
\* 6 and nothing else.
C12_GCDTerminates ==
    (last.op = "execute_program" /\ last.cmd = GCDProgram)
    ~> (Idle /\ last.op = "ProgramReturn" /\ out = <<IntV(6)>>)

\* C12 witness: the GCD program has returned with a = 6 and b = 0
C12_Witness ==
    /\ Idle
    /\ last.op = "ProgramReturn"
    /\ last.frame.seq = GCDProgram
    /\ out = <<IntV(6)>>
    /\ access(LastState, lookup(LastEnv, "a").val.address) = Return(IntV(6))
    /\ access(LastState, lookup(LastEnv, "b").val.address) = Return(IntV(0))

\* The commands of seq that an activation has still to run are the last ones
\* of seq
IsSuffix(todo, seq) ==
    /\ Len(todo) <= Len(seq)
    /\ todo = SubSeq(seq, Len(seq) - Len(todo) + 1, Len(seq))

\* C13: in the then-branch that declares y = 42 and f(a, b) = y + a + b, a
\* printed call f(m, n) yields the value stored for y at the call plus m plus
\* n; the test program prints 45 and 45 in this order, and no command of its
\* else-branch is executed.
C13_BlockFunction ==
    /\ (last.op = "ProgramReturn" /\ last.frame.seq = BlockFunctionProgram)
       => out = <<IntV(45), IntV(45)>>
    /\ (~Idle /\ stack[1].seq \in {BlockFunctionProgram, BlockFunctionAssignProgram})
       => /\ \A i \in DOMAIN stack : stack[i].seq # stack[1].seq[2].else_branch
          /\ Len(out) <= 2
    /\ (last.op = "Print"
          /\ last.frame.seq \in {BlockFunctionProgram[2].then_branch,
                                 BlockFunctionAssignProgram[2].then_branch})
       => /\ last.frame.kind = "if"
          /\ LastExpr.e = "FunctionApp"
          /\ LastExpr.name = "f"
          /\ PrintOutcome(EReturn(
                IntV(access(LastState, lookup(LastEnv, "y").val.address).val.v
                     + LastExpr.args[1].value + LastExpr.args[2].value),
                LastState))

\* C13 witness: the test program has returned, having printed 45 twice
C13_Witness ==
    /\ last.op = "ProgramReturn"
    /\ last.frame.seq = BlockFunctionProgram
    /\ out = <<IntV(45), IntV(45)>>

\* C14: an activation runs the commands of its sequence in their order, each
\* Print emits the value of its expression in the environment and state the
\* commands before it have produced, and the outputs are in program order:
\* var x = 10; var y = x + 5; print y emits 15, and
\* var x = 10; print x; x <- 20; print x emits 10 and then 20.
C14_Sequencing ==
    /\ \A i \in DOMAIN stack : IsSuffix(stack[i].todo, stack[i].seq)
    /\ (last.op \in {"VarDecl", "Assign", "Print", "FunctionDecl"} /\ ~LastRaised)
       => Top.todo = Tail(last.frame.todo)
    /\ (last.op = "Print" /\ ~LastRaised)
       => /\ evaluate_expr(LastExpr, LastEnv, LastState).ok
          /\ out # <<>>
          /\ out[Len(out)] = evaluate_expr(LastExpr, LastEnv, LastState).val
          /\ Top.env = LastEnv
          /\ Top.state = LastState
    /\ (last.op = "ProgramReturn" /\ last.frame.seq = DeclareThenPrintProgram)
       => out = <<IntV(15)>>
    /\ (last.op = "ProgramReturn" /\ last.frame.seq = PrintAssignPrintProgram)
       => out = <<IntV(10), IntV(20)>>
    /\ (~Idle /\ stack[1].seq = PrintAssignPrintProgram /\ Len(Top.todo) = 2)
       => out = <<IntV(10)>>

\* C14 witness: the second test program has returned, having printed 10, 20
C14_Witness ==
    /\ last.op = "ProgramReturn"
    /\ last.frame.seq = PrintAssignPrintProgram
    /\ out = <<IntV(10), IntV(20)>>

\* q is the floor of the exact quotient of a by b
IsFloorQuotient(q, a, b) ==
    IF b > 0 THEN q * b <= a /\ a < (q + 1) * b
    ELSE q * b >= a /\ a > (q + 1) * b

\* C16: on integers a and b, + - * yield a + b, a - b, a * b; for b # 0, /
\* yields the floor of the exact quotient and % yields a - b * floor(a / b),
\* whatever the signs; for b = 0 both / and % raise the division by zero error.
C16_Arithmetic ==
    (last.op = "Print" /\ LastExpr.e = "Apply" /\ LastExpr.op \in ArithmeticOperators
       /\ Len(LastExpr.args) = 2
       /\ LastExpr.args[1].e = "Number" /\ LastExpr.args[2].e = "Number")
    => LET a == LastExpr.args[1].value
           b == LastExpr.args[2].value
           op == LastExpr.op
           Yields(n) == PrintOutcome(EReturn(IntV(n), LastState))
       IN  CASE op = "+" -> Yields(a + b)
             [] op = "-" -> Yields(a - b)
             [] op = "*" -> Yields(a * b)
             [] op \in {"/", "%"} ->
                   IF b = 0 THEN PrintOutcome(ERaise(<<"Division by zero">>, LastState))
                   ELSE \E q \in (0 - a * a - 1)..(a * a + 1) :
                           /\ IsFloorQuotient(q, a, b)
                           /\ Yields(IF op = "/" THEN q ELSE a - b * q)

\* C16 witness: -3 / 2 was printed as -2
C16_Witness ==
    /\ last.op = "Print"
    /\ LastExpr = Apply("/", <<N(0 - 3), N(2)>>)
    /\ ~LastRaised
    /\ out = <<IntV(0 - 2)>>

\* C17: VarDecl(name, e) fails as e fails; else the value of e, evaluated in
\* the environment and state before the declaration, is stored at the address
\* that was next_loc, next_loc is one more, the environment is the one before
\* with name bound to that address, and an address name denoted before is
\* another one whose cell holds what it held.
C17_VarDecl ==
    (last.op = "VarDecl")
    => LET value == evaluate_expr(LastExpr, LastEnv, LastState)
           new == LastState.next_loc
           old == lookup(LastEnv, last.cmd.name)
       IN  IF ~value.ok THEN LastRaised /\ error = value.err
           ELSE /\ ~LastRaised
                /\ Top.env = bind(LastEnv, last.cmd.name, Loc(new))
                /\ lookup(Top.env, last.cmd.name) = Return(Loc(new))
                /\ access(Top.state, new) = Return(value.val)
                /\ Top.state.next_loc = new + 1
                /\ \A a \in DOMAIN LastState.store :
                      a # new => access(Top.state, a) = access(LastState, a)
                /\ (old.ok /\ old.val.k = "loc")
                   => /\ old.val.address # new
                      /\ access(Top.state, old.val.address)
                            = access(LastState, old.val.address)

\* C17 witness: var x = x + 1 was executed where x was declared as 1
C17_Witness ==
    /\ last.op = "VarDecl"
    /\ ~LastRaised
    /\ last.cmd = VarDecl("x", Plus(X, N(1)))
    /\ lookup(LastEnv, "x").ok
    /\ lookup(LastEnv, "x").val.k = "loc"
    /\ access(Top.state, lookup(LastEnv, "x").val.address) = Return(IntV(1))
    /\ access(Top.state, lookup(Top.env, "x").val.address) = Return(IntV(2))

\* C18: IfElse fails as its condition fails, raises the type error when the
\* condition is not a boolean, and otherwise runs the then-sequence when the
\* condition is true and the else-sequence when it is false, from its first
\* command, in the environment and state of the IfElse; every running branch
\* is the one its condition selected, and when it has ended the commands after
\* the IfElse follow.
C18_IfElseDispatch ==
    /\ (last.op = "IfElse")
       => LET c == evaluate_expr(last.cmd.cond, LastEnv, LastState)
              Runs(branch) ==
                 /\ ~LastRaised
                 /\ Len(stack) >= 2
                 /\ Top.kind = "if"
                 /\ Top.seq = branch
                 /\ Top.todo = branch
                 /\ Top.env = LastEnv
                 /\ Top.state = LastState
                 /\ stack[Len(stack) - 1].todo = last.frame.todo
          IN  IF ~c.ok THEN LastRaised /\ error = c.err
              ELSE IF c.val = BoolV(TRUE) THEN Runs(last.cmd.then_branch)
              ELSE IF c.val = BoolV(FALSE) THEN Runs(last.cmd.else_branch)
              ELSE LastRaised /\ error = <<"If condition must be boolean">>
    /\ \A i \in DOMAIN stack :
          (stack[i].kind = "if")
          => /\ i > 1
             /\ stack[i - 1].todo # <<>>
             /\ LET cmd == Head(stack[i - 1].todo)
                    c == evaluate_expr(cmd.cond, stack[i - 1].blk.env, stack[i - 1].blk.state)
                IN  /\ cmd.c = "IfElse"
                    /\ c.ok
                    /\ c.val.k = "bool"
                    /\ stack[i].seq = IF c.val.b THEN cmd.then_branch ELSE cmd.else_branch
    /\ (last.op = "ExitIfElse")
       => /\ last.frame.kind = "if"
          /\ Top.seq[Len(Top.seq) - Len(Top.todo)] = last.cmd

\* C18 witness: if 1 then ... raised the type error
C18_Witness ==
    /\ last.op = "IfElse"
    /\ last.cmd.cond = N(1)
    /\ LastRaised
    /\ error = <<"If condition must be boolean">>
    /\ out = <<>>

\* C19: when a block has ended, its caller goes on with the environment the
\* IfElse or While was given: a name the block declared or shadowed denotes
\* what it denoted before the block, nothing if it was unbound; so after a
\* block that declared y and f and shadowed x, print y and the call f(1) fail
\* on the undefined name and print x prints the outer x.
C19_BlockLocalVisibility ==
    /\ (last.op \in {"ExitIfElse", "ExitWhile"})
       => /\ Top.env = last.blk.env
          /\ \A n \in NamesOf(last.frame.env) : lookup(Top.env, n) = lookup(last.blk.env, n)
    /\ (last.op = "WhileDone")
       => /\ ~LastRaised
          /\ Top.env = LastEnv
          /\ last.blk.active => Top.env = last.blk.env
    /\ (last.frame.kind = "program" /\ last.frame.seq \in BlockPrograms
          /\ Len(last.frame.todo) = 2)
       => /\ last.cmd = PrintCmd(Y)
             => LastRaised /\ error = <<"Variable error", "Undefined identifier">>
          /\ last.cmd = PrintCmd(FunctionApp("f", <<N(1)>>))
             => LastRaised /\ error = <<"Undefined identifier">>
          /\ last.cmd = Assign("y", N(0)) => LastRaised
          /\ last.cmd = PrintCmd(X)
             => PrintOutcome(EReturn(access(LastState, 0).val, LastState))

\* C19 witness: a branch that declared y and f and shadowed x has ended
C19_Witness ==
    /\ last.op = "ExitIfElse"
    /\ lookup(last.frame.env, "y").ok
    /\ ~lookup(Top.env, "y").ok
    /\ lookup(last.frame.env, "f").ok
    /\ ~lookup(Top.env, "f").ok
    /\ lookup(Top.env, "x").ok
    /\ lookup(last.frame.env, "x") # lookup(Top.env, "x")

\* C20: a While whose condition is false goes on with the environment and
\* state it was given; one whose condition is true runs its body from the
\* first command in that environment and state, and when the body has ended
\* the same While is executed again in the environment of the first entry and
\* the body's store with next_loc as at the first entry, so that every
\* iteration allocates from the same address; a condition that is not a
\* boolean raises the type error.
C20_While ==
    /\ (last.op = "WhileDone")
       => /\ ~LastRaised
          /\ evaluate_expr(last.cmd.cond, LastEnv, LastState).val = BoolV(FALSE)
          /\ Top.env = LastEnv
          /\ Top.state = LastState
          /\ Top.todo = Tail(last.frame.todo)
    /\ (last.op = "While")
       => LET c == evaluate_expr(last.cmd.cond, LastEnv, LastState)
          IN  IF ~c.ok THEN LastRaised /\ error = c.err
              ELSE IF c.val.k # "bool"
              THEN LastRaised /\ error = <<"While condition must be boolean">>
              ELSE /\ c.val.b
                   /\ ~LastRaised
                   /\ Len(stack) >= 2
                   /\ Top.kind = "while"
                   /\ Top.todo = last.cmd.body
                   /\ Top.env = LastEnv
                   /\ Top.state = LastState
    /\ (last.op \in {"ExitWhile", "ExitIfElse"} /\ last.frame.kind = "while")
       => /\ last.cmd.c = "While"
          /\ Top.todo # <<>>
          /\ Head(Top.todo) = last.cmd
          /\ Top.env = last.blk.env
          /\ Top.state = [store |-> last.frame.state.store,
                          next_loc |-> last.blk.state.next_loc]
    /\ \A i \in DOMAIN stack :
          (stack[i].kind = "while")
          => /\ i > 1
             /\ stack[i].saved_next_loc = stack[i - 1].blk.state.next_loc
             /\ Len(stack[i - 1].blk.env) <= Len(stack[i].env)
             /\ SubSeq(stack[i].env, 1, Len(stack[i - 1].blk.env)) = stack[i - 1].blk.env
             /\ stack[i].todo = stack[i].seq
                => (stack[i].env = stack[i - 1].blk.env
                      /\ stack[i].state.next_loc = stack[i - 1].blk.state.next_loc)

\* C20 witness: the loop on x < 2 whose body shadows x with 10 has ended after
\* two iterations
C20_Witness ==
    /\ last.op = "WhileDone"
    /\ last.blk.active
    /\ out = <<IntV(10), IntV(10)>>
    /\ access(Top.state, lookup(Top.env, "x").val.address) = Return(IntV(2))

\* C15: for the environment the caller holds and for the empty one, any name
\* x and any values v1 and v2, with e1 = bind(env, x, v1) and
\* e2 = bind(e1, x, v2): lookup(e2, x) is v2, lookup(e1, x) is v1, every other
\* name has in e1 and in e2 the lookup it has in env, and the lookup of a name
\* env does not bind fails; a bind the caller made is seen by lookup and left
\* the other names as they were, and a lookup leaves the environment as it was.
C15_ShadowingLaw ==
    /\ \A env \in {repl_env, empty_environment} :
          /\ \A x \in EnvNames, v1 \in EnvValues, v2 \in EnvValues :
                LET e1 == bind(env, x, v1)
                    e2 == bind(e1, x, v2)
                IN  /\ lookup(e2, x) = Return(v2)
                    /\ lookup(e1, x) = Return(v1)
                    /\ \A n \in (EnvNames \cup {Unbound}) \ {x} :
                          /\ lookup(e1, n) = lookup(env, n)
                          /\ lookup(e2, n) = lookup(env, n)
          /\ \A n \in EnvNames \cup {Unbound} :
                (\A i \in DOMAIN env : env[i][1] # n)
                => lookup(env, n) = Raise(<<"Undefined identifier">>)
    /\ (last.op = "bind")
       => /\ lookup(repl_env, last.cmd.name) = Return(last.cmd.value)
          /\ \A n \in (EnvNames \cup {Unbound}) \ {last.cmd.name} :
                lookup(repl_env, n) = lookup(LastEnv, n)
    /\ (last.op = "lookup")
       => /\ repl_env = LastEnv
          /\ (error = <<>>) = (\E i \in DOMAIN repl_env : repl_env[i][1] = last.cmd.name)

\* C15 witness: x was bound, and bound again to another value, and lookup
\* finds the second value
C15_Witness ==
    /\ last.op = "bind"
    /\ last.cmd.name = "x"
    /\ lookup(LastEnv, "x").ok
    /\ lookup(LastEnv, "x").val # last.cmd.value
    /\ lookup(repl_env, "x") = Return(last.cmd.value)


RECURSIVE CountVarDecl(_)
CountVarDecl(seq) ==
    IF seq = <<>> THEN 0
    ELSE LET cmd == Head(seq)
             here == CASE cmd.c = "VarDecl" -> 1
                       [] cmd.c = "IfElse" -> CountVarDecl(cmd.then_branch)
                                              + CountVarDecl(cmd.else_branch)
                       [] cmd.c = "While" -> CountVarDecl(cmd.body)
                       [] OTHER -> 0
         IN  here + CountVarDecl(Tail(seq))

\* While a loop runs, no activation inside it has a next_loc above the
\* pre-loop one plus the VarDecl commands of the loop's body
LoopGrowthBounded ==
    \A i \in DOMAIN stack :
       (stack[i].kind = "while")
       => /\ i > 1
          /\ stack[i].saved_next_loc = stack[i - 1].blk.state.next_loc
          /\ \A j \in i..Len(stack) :
                stack[j].state.next_loc
                   <= stack[i - 1].blk.state.next_loc + CountVarDecl(stack[i].seq)

\* next_loc at top level: of the running program's outermost sequence, of the
\* REPL's state at the prompt
TopNextLoc == IF Idle THEN repl_state.next_loc ELSE stack[1].state.next_loc

\* The step executed a VarDecl outside any block, and it returned
DeclaredAtTop ==
    /\ last'.op = "VarDecl"
    /\ last'.frame.kind \in {"top", "program"}
    /\ ~Idle'

\* The step raised: the exception ended the running program
RaisedNow == ~Idle /\ Idle' /\ last'.op # "REPLAssign"

\* C22 as stated: the loop bound, and every step adds to the top-level
\* next_loc the VarDecl it executed outside any block, one or none.
C22_TopLevelCountsEveryDecl ==
    /\ []LoopGrowthBounded
    /\ [][TopNextLoc' = TopNextLoc + (IF DeclaredAtTop THEN 1 ELSE 0)]_vars

\* C22 amended: the loop bound; a step that does not raise adds to the
\* top-level next_loc the VarDecl it executed outside any block, one or none;
\* a step that raises puts it back to what it was when the program was read,
\* whatever the program had declared, and only a program that returns passes
\* its next_loc on to the REPL.
C22_StoreGrowth ==
    /\ []LoopGrowthBounded
    /\ [][/\ TopNextLoc' = IF RaisedNow THEN repl_state.next_loc
                           ELSE TopNextLoc + (IF DeclaredAtTop THEN 1 ELSE 0)
          /\ repl_state'.next_loc = IF last'.op = "REPLAssign" THEN TopNextLoc
                                    ELSE repl_state.next_loc]_vars

\* C22 witness: a program declared a variable outside any block and then
\* raised; the REPL's next_loc does not count the declaration
C22_Witness ==
    /\ LastRaised
    /\ last.frame.kind = "top"
    /\ Len(last.frame.seq) - Len(last.frame.todo) >= 1
    /\ last.frame.seq[1].c = "VarDecl"
    /\ last.frame.state.next_loc = repl_state.next_loc + 1

\* C23: when a branch or a loop body has ended, the caller goes on with the
\* store the body ended with and the next_loc saved at its entry: every cell
\* reads as the body left it, the cells assigned to inside the block and the
\* cells of the block's own variables, now at or above next_loc, included; a
\* loop whose condition is false returns the state it was given; and a later
\* declaration overwrites the stale cell at next_loc and no other.
C23_MappingKept ==
    /\ (last.op \in {"ExitIfElse", "ExitWhile"})
       => /\ Top.state.store = last.frame.state.store
          /\ Top.state.next_loc = last.frame.saved_next_loc
          /\ \A a \in DOMAIN last.frame.state.store :
                access(Top.state, a) = Return(last.frame.state.store[a])
          /\ \A n \in NamesOf(last.frame.env) :
                lookup(last.frame.env, n).val.k = "loc"
                => LET a == lookup(last.frame.env, n).val.address
                   IN  /\ access(Top.state, a).ok
                       /\ access(Top.state, a) = access(last.frame.state, a)
    /\ (last.op = "WhileDone") => Top.state = LastState
    /\ (last.op = "VarDecl" /\ ~LastRaised)
       => \A a \in DOMAIN LastState.store :
             access(Top.state, a)
                = IF a = LastState.next_loc
                  THEN Return(evaluate_expr(LastExpr, LastEnv, LastState).val)
                  ELSE access(LastState, a)

\* C23 witness: a loop body that declared a variable and assigned to one
\* declared outside has ended; the outer cell holds the assigned value and
\* the body's cell, above next_loc, still holds its value
C23_Witness ==
    /\ last.op = "ExitWhile"
    /\ \E a \in DOMAIN Top.state.store :
          /\ a < Top.state.next_loc
          /\ a \in DOMAIN last.blk.state.store
          /\ Top.state.store[a] # last.blk.state.store[a]
    /\ \E n \in NamesOf(last.frame.env) \ NamesOf(Top.env) :
          /\ lookup(last.frame.env, n).val.k = "loc"
          /\ lookup(last.frame.env, n).val.address >= Top.state.next_loc
          /\ access(Top.state, lookup(last.frame.env, n).val.address).ok

\* The failure the call FunctionApp(name, args) must end in, in the order the
\* checks are made; <<>> if the call gets as far as the body
CallFailure(call, env, state) ==
    LET dval == lookup(env, call.name)
        as == evaluate_args(call.args, env, state)
    IN  IF ~dval.ok THEN dval.err
        ELSE IF dval.val.k # "closure" THEN <<"is not a function">>
        ELSE IF ~as.ok THEN as.err
        ELSE IF Len(call.args) # Len(dval.val.function.params)
        THEN <<"Function expects arguments">>
        ELSE <<>>

\* C24: a call of a name bound to an operator, an address or a value raises
\* "is not a function" whatever its arguments would do; a call of a function
\* with another number of arguments than it has parameters raises the error
\* of the first failing argument if there is one, else the arity error,
\* whatever the body would do.
C24_CallChecks ==
    /\ (last.op = "Print" /\ LastExpr.e = "FunctionApp")
       => /\ CallFailure(LastExpr, LastEnv, LastState) # <<>>
             => LastRaised /\ error = CallFailure(LastExpr, LastEnv, LastState)
          /\ (lookup(LastEnv, LastExpr.name).ok
                /\ lookup(LastEnv, LastExpr.name).val.k \in {"op", "loc", "int", "bool"})
             => LastRaised /\ error = <<"is not a function">>
    /\ (last.op = "Print" /\ LastExpr.e = "Let" /\ LastExpr.body.e = "FunctionApp")
       => LET value == evaluate_expr(LastExpr.expr, LastEnv, LastState)
              inner == bind(LastEnv, LastExpr.name, value.val)
          IN  (value.ok /\ CallFailure(LastExpr.body, inner, LastState) # <<>>)
              => LastRaised /\ error = CallFailure(LastExpr.body, inner, LastState)

\* C24 witness: h(a) = y, whose body would raise, was called with two
\* arguments and raised the arity error
C24_Witness ==
    /\ last.op = "Print"
    /\ LastExpr = FunctionApp("h", <<N(7), N(0)>>)
    /\ lookup(LastEnv, "h").ok
    /\ lookup(LastEnv, "h").val.k = "closure"
    /\ ~evaluate_expr(lookup(LastEnv, "h").val.function.body,
                      bind(lookup(LastEnv, "h").val.env, "a", IntV(7)), LastState).ok
    /\ LastRaised
    /\ error = <<"Function expects arguments">>

\* C25: Apply(op, args) with an argument that fails raises the error of the
\* leftmost failing argument, whatever op is bound to: the operator is looked
\* up and checked only after every argument was evaluated.
C25_ArgumentsBeforeOperator ==
    (last.op = "Print" /\ LastExpr.e = "Apply")
    => LET arg(i) == evaluate_expr(LastExpr.args[i], LastEnv, LastState)
           failing == {i \in DOMAIN LastExpr.args : ~arg(i).ok}
           op_val == lookup(LastEnv, LastExpr.op)
       IN  /\ failing # {}
              => LET first == CHOOSE i \in failing : \A j \in failing : i <= j
                 IN  LastRaised /\ error = arg(first).err
           /\ (failing = {} /\ ~op_val.ok) => LastRaised /\ error = op_val.err
           /\ (failing = {} /\ op_val.ok /\ op_val.val.k # "op")
              => LastRaised /\ error = <<"is not an operator">>

\* C25 witness: nope(zz, 1 / 0), with nope unbound and both arguments
\* failing, raised the error of zz
C25_Witness ==
    /\ last.op = "Print"
    /\ LastExpr = Apply("nope", <<Var("zz"), DivZero>>)
    /\ ~lookup(LastEnv, "nope").ok
    /\ ~evaluate_expr(DivZero, LastEnv, LastState).ok
    /\ LastRaised
    /\ error = <<"Variable error", "Undefined identifier">>

\* C26: in the Lecture 6 evaluator, and with a left operand that evaluates to
\* a falsy value is False, and or with a left operand that evaluates to a
\* truthy value is True, whatever evaluating the right operand would do; an if
\* on such a condition takes the branch that value selects; and Example 3
\* evaluates to 2.
C26_ShortCircuitL6 ==
    (last.op = "eval_expr")
    => LET expr == last.cmd.expr
           Absorbed(j, env) ==
              /\ j.e = "BinOp"
              /\ j.op \in {"and", "or"}
              /\ eval_expr(j.left, env).ok
              /\ truthy(eval_expr(j.left, env).val) = (j.op = "or")
       IN  /\ Absorbed(expr, LastEnv)
              => error = <<>> /\ out = <<BoolV(expr.op = "or")>>
           /\ (expr.e = "If" /\ Absorbed(expr.cond, LastEnv))
              => /\ error = <<>>
                 /\ out = <<IF expr.cond.op = "or" THEN IntV(1) ELSE IntV(2)>>
           /\ (expr.e = "Let" /\ Absorbed(expr.body, bind(LastEnv, expr.name,
                                                          IntV(expr.expr.value))))
              => error = <<>> /\ out = <<BoolV(expr.body.op = "or")>>
           /\ expr = Example3 => error = <<>> /\ out = <<IntV(2)>>

\* C26 witness: Example 3 was evaluated in the empty environment, where its
\* right operand 10 / x > 1 alone raises, and the result is 2
C26_Witness ==
    /\ last.op = "eval_expr"
    /\ last.cmd.expr = Example3
    /\ LastEnv = empty_env
    /\ ~eval_expr(TenOverX, bind(empty_env, "x", IntV(0))).ok
    /\ error = <<>>
    /\ out = <<IntV(2)>>

\* C27: an Assign(name, e) that returns leaves the environment and next_loc
\* as they were; name denotes an address, the cell there holds the value of e
\* evaluated in the state before, and every other address reads as before,
\* allocated or not.
C27_AssignFrame ==
    (last.op = "Assign" /\ ~LastRaised)
    => LET dval == lookup(LastEnv, last.cmd.name)
           value == evaluate_expr(LastExpr, LastEnv, LastState)
       IN  /\ Top.env = LastEnv
           /\ Top.state.next_loc = LastState.next_loc
           /\ dval.ok
           /\ dval.val.k = "loc"
           /\ value.ok
           /\ access(Top.state, dval.val.address) = Return(value.val)
           /\ DOMAIN Top.state.store = DOMAIN LastState.store \cup {dval.val.address}
           /\ \A l \in 0..(MaxSteps + 1) :
                 l # dval.val.address => access(Top.state, l) = access(LastState, l)

\* C27 witness: a <- a - b of the GCD program, with a = 48 and b = 18: a is
\* 30, b is still 18
C27_Witness ==
    /\ last.op = "Assign"
    /\ ~LastRaised
    /\ last.cmd = Assign("a", Apply("-", <<A, B>>))
    /\ access(LastState, 0) = Return(IntV(48))
    /\ access(Top.state, 0) = Return(IntV(30))
    /\ access(Top.state, 1) = Return(IntV(18))
    /\ lookup(Top.env, "a") = Return(Loc(0))

\* C28: Let(n, e1, e2) has the outcome of e2 evaluated in the environment it
\* was given with n bound to the value of e1, itself an int or a bool and not
\* an address, and in the state it was given, which it leaves as it was; the
\* command it is part of goes on with the environment of before, extended only
\* by what the command declares, so that n denotes what it denoted, the same
\* address with the same value or nothing; and an operand that follows the
\* let in the same expression is evaluated with n as before the let.
C28_LetScope ==
    /\ (last.op \in {"Print", "VarDecl", "Assign"} /\ LastExpr.e = "Let")
       => LET n == LastExpr.name
              value == evaluate_expr(LastExpr.expr, LastEnv, LastState)
              inner == bind(LastEnv, n, value.val)
              whole == evaluate_expr(LastExpr, LastEnv, LastState)
              before == lookup(LastEnv, n)
          IN  /\ whole.state = LastState
              /\ ~value.ok => ~whole.ok /\ whole.err = value.err
              /\ value.ok
                 => /\ value.val.k \in {"int", "bool"}
                    /\ lookup(inner, n) = Return(value.val)
                    /\ whole = evaluate_expr(LastExpr.body, inner, LastState)
              /\ last.op = "Print" => PrintOutcome(whole)
              /\ (last.op = "Print" /\ ~LastRaised)
                 => Top.env = LastEnv /\ Top.state = LastState
              /\ (~LastRaised /\ (last.op = "VarDecl" => last.cmd.name # n))
                 => /\ lookup(Top.env, n) = before
                    /\ (before.ok /\ before.val.k = "loc" /\ last.op # "Assign")
                       => access(Top.state, before.val.address)
                             = access(LastState, before.val.address)
              /\ (~LastRaised /\ last.op = "VarDecl")
                 => /\ Top.state.next_loc = LastState.next_loc + 1
                    /\ access(Top.state, LastState.next_loc) = Return(whole.val)
              /\ (~LastRaised /\ last.op = "Assign")
                 => /\ Top.state.next_loc = LastState.next_loc
                    /\ access(Top.state, lookup(LastEnv, last.cmd.name).val.address)
                          = Return(whole.val)
    /\ (last.op = "Print" /\ LastExpr.e = "Apply" /\ Len(LastExpr.args) = 2
          /\ LastExpr.args[1].e = "Let")
       => LET let == evaluate_expr(LastExpr.args[1], LastEnv, LastState)
              next == evaluate_expr(LastExpr.args[2], LastEnv, LastState)
              op_val == lookup(LastEnv, LastExpr.op)
          IN  (let.ok /\ op_val.ok /\ op_val.val.k = "op")
              => IF ~next.ok THEN LastRaised /\ error = next.err
                 ELSE LET r == apply_operator(op_val.val, <<let.val, next.val>>)
                      IN  /\ PrintOutcome(IF r.ok THEN EReturn(r.val, LastState)
                                          ELSE ERaise(r.err, LastState))
                          /\ ~LastRaised => Top.env = LastEnv /\ Top.state = LastState

\* C28 witness: print (let x = 7 in x) + x, where x is a variable that holds
\* 1, printed 8 and left x at its address with 1
C28_Witness ==
    /\ last.op = "Print"
    /\ LastExpr = Plus(Let("x", N(7), X), X)
    /\ lookup(LastEnv, "x") = Return(Loc(0))
    /\ ~LastRaised
    /\ out = <<IntV(8)>>
    /\ lookup(Top.env, "x") = Return(Loc(0))
    /\ access(Top.state, 0) = Return(IntV(1))
    /\ Top.state.next_loc = 1

\* C29: in the body of a called function, a name that denoted an address
\* where the function was declared, and is not a parameter, denotes that
\* address, and reads what the cell holds in the state of the call, not what
\* it held at the declaration; so f(a) = x + a called with n prints the
\* current value of that x plus n, also after x was redeclared.
C29_CaptureByAddress ==
    (last.op = "Print" /\ LastExpr.e = "FunctionApp")
    => LET dval == lookup(LastEnv, LastExpr.name)
       IN  (dval.ok /\ dval.val.k = "closure")
           => LET closure == dval.val
                  params == closure.function.params
                  body == closure.function.body
                  declared == DeclEnv(LastEnv, LastExpr.name)
                  as == evaluate_args(LastExpr.args, LastEnv, LastState)
                  inside == call_env(closure, LastEnv, as.val)
                  Captured(n) == /\ lookup(declared, n).ok
                                 /\ lookup(declared, n).val.k = "loc"
                                 /\ \A i \in DOMAIN params : params[i] # n
                  Cell(n) == access(LastState, lookup(declared, n).val.address)
              IN  (as.ok /\ Len(as.val) = Len(params))
                  => /\ \A n \in NamesOf(declared) :
                           Captured(n)
                           => /\ lookup(inside, n) = lookup(declared, n)
                              /\ Cell(n).ok
                              /\ evaluate_expr(Var(n), inside, LastState)
                                    = EReturn(Cell(n).val, LastState)
                     /\ (body = Plus(X, A) /\ params = <<"a">> /\ Captured("x")
                           /\ Cell("x").val.k = "int" /\ as.val[1].k = "int")
                        => PrintOutcome(EReturn(IntV(Cell("x").val.v + as.val[1].v),
                                                LastState))

\* C29 witness: f(a) = x + a was declared with x = 1, x was assigned 10, and
\* f(1) printed 11
C29_Witness ==
    /\ last.op = "Print"
    /\ LastExpr = FunctionApp("f", <<N(1)>>)
    /\ lookup(LastEnv, "x") = lookup(DeclEnv(LastEnv, "f"), "x")
    /\ lookup(LastEnv, "x") = Return(Loc(0))
    /\ access(LastState, 0) = Return(IntV(10))
    /\ ~LastRaised
    /\ out = <<IntV(2), IntV(11)>>

\* Every closure an environment binds captured exactly the bindings below its
\* own: the closures it can call were declared strictly before it
ClosuresDeclaredBefore(env) ==
    \A i \in DOMAIN env :
        env[i][2].k = "closure" => env[i][2].env = SubSeq(env, 1, i - 1)

\* C30: the evaluation of an expression always ends.  In the environment of
\* every activation, a closure captured only what was bound before its own
\* declaration; no activation of evaluate_expr is ever held back by the bound
\* on the depth of the stack; an evaluation that has started comes to its end;
\* and it ends as evaluate_expr says, with the value printed or with the
\* exception raised.
C30_EvaluationTerminates ==
    /\ [](\A i \in DOMAIN stack : ClosuresDeclaredBefore(stack[i].env))
    /\ []((Evaluating /\ next_step(Top).call) => Len(stack) < MaxDepth)
    /\ [](last.op = "Print" => PrintOutcome(evaluate_expr(LastExpr, LastEnv, LastState)))
    /\ (Evaluating ~> ~Evaluating)

\* f(h(h(0))) has been evaluated through three levels of function calls and
\* printed 13
C30_Witness ==
    /\ last.op = "Print"
    /\ LastExpr = FunctionApp("f", <<FunctionApp("h", <<FunctionApp("h", <<N(0)>>)>>)>>)
    /\ ~LastRaised
    /\ out # <<>>
    /\ out[Len(out)] = IntV(13)
=============================================================================
